---- MODULE Spec2Model ----
(***************************************************************************)
(* A model of the garbage-truck route planner: the spatial graph           *)
(* (src/src/graph.py), the A* pathfinder (src/src/astar.py), the greedy    *)
(* construction heuristic (src/src/greedy_init.py), the 2-opt refiner      *)
(* (src/src/two_opt.py), the simulated-annealing optimizer                 *)
(* (src/src/sa_optimizer.py) and the path expansion of the facade          *)
(* (src/src/vrp_solver.py).                                                *)
(*                                                                         *)
(* Numbers.  The program computes with floats.  The model computes with    *)
(* integers that count 1/Unit of a length unit (fixed point): coordinates, *)
(* edge weights, distances and costs are such integers, and math.sqrt      *)
(* rounds down to that resolution.  float('inf') is the integer Inf,       *)
(* larger than every sum the model forms.                                  *)
(***************************************************************************)
EXTENDS Integers, Sequences, FiniteSets, TLC

VARIABLES
    graph,      \* Graph: [nodes, edges]
    raised,     \* the exception the last call raised ("" when it returned)
    pc,         \* where the driver of the current specification stands
    ast,        \* the locals of astar
    gr,         \* the arguments and locals of greedy_initial_solution
    opt,        \* the arguments and locals of two_opt_single_route
    sa,         \* the arguments and locals of simulated_annealing_optimize
    fmt,        \* a solution, formatted with the depot and stripped again
    fp,         \* the argument and locals of compute_full_paths_as_single_list
    rnd,        \* the generator shared by the functions of module random
    logged,     \* the calls of simulated_annealing_optimize that have returned
    heap,       \* the lists and dicts of the process, by address
    fr,         \* the call in progress on objects of the heap
    ev          \* what evaluate_routes and evaluate_routes_simple returned

graphVars == <<graph, raised>>
stageVars == <<opt, sa, fmt, fp>>
otherVars == <<rnd, logged, heap, fr, ev>>
vars == <<graph, raised, pc, ast, gr, opt, sa, fmt, fp, otherVars>>

-----------------------------------------------------------------------------
(* Bounds and input sets *)

\* Resolution of the fixed-point numbers: 1 length unit = Unit.
Unit == 10

\* float('inf')
Inf == 1000000000

\* Node ids of the hand-built graphs.
NodeIds == {"A", "B", "C"}

\* Coordinates of hand-built nodes: x in 0..MaxX, y in 0..MaxY length units.
MaxX == 2
MaxY == 1

\* Edge weights of hand-built graphs: 1..MaxWeight length units.
MaxWeight == 3

\* Grids of load_from_grid: 1..MaxWidth columns, 1..MaxHeight rows.
MaxWidth == 3
MaxHeight == 3

\* Grid spacings: 1.0 and 1.5 length units.
Spacings == {Unit, (3 * Unit) \div 2}

\* Inputs of greedy_initial_solution: up to MaxTrucks trucks of capacity
\* 1..MaxCapacity, demands 1..MaxDemand, on the sites of a 2 x 2 grid whose
\* corner N0_0 is the depot.
MaxTrucks == 4
MaxCapacity == 3
MaxDemand == 2
Depot == "N0_0"

\* Inputs of two_opt_single_route: routes of up to MaxStops stops between two
\* visits of the depot, thresholds 0, 0.1 and 1.0, and max_iterations in
\* 0..MaxIterations or the default of the signature.
MaxStops == 4
MaxIterations == 2
DefaultMaxIterations == 1000

\* Inputs of simulated_annealing_optimize: solutions of up to MaxSaTrucks
\* trucks with up to MaxSaStops stops in all, iter_per_temp in
\* 0..MaxIterPerTemp.
MaxSaTrucks == 2
MaxSaStops == 3
MaxIterPerTemp == 2

\* Inputs of format_routes_with_depot: up to MaxFormatTrucks trucks with up to
\* MaxFormatStops stops each.
MaxFormatTrucks == 2
MaxFormatStops == 2

\* Inputs of compute_full_paths_as_single_list: up to MaxPathTrucks trucks
\* with up to MaxPathStops stops in all, on a grid of PathWidth x PathHeight
\* cells.
MaxPathTrucks == 2
MaxPathStops == 2
PathWidth == 3
PathHeight == 2

\* Graphs built by any sequence of calls: add_node on the ids of BuildIds,
\* used or not, at x in 0..MaxBuildX; add_edge between any two ids of EdgeIds, in
\* the graph or not, with weights 1..MaxBuildWeight; load_from_grid of one
\* row of 1..MaxBuildWidth cells.
BuildIds == {"A", "N0_0"}
EdgeIds == {"A", "N0_0", "N0_1"}
MaxBuildX == 1
MaxBuildWeight == 2
MaxBuildWidth == 2

\* The generator of module random gives RandMax different numbers; it is
\* seeded with 0..MaxSeed, and up to MaxRuns calls with different outcomes
\* are logged, each made with iter_per_temp = SeededIterPerTemp.
RandMax == 8
MaxSeed == 1
MaxRuns == 2
SeededIterPerTemp == 2

\* iter_per_temp of the calls of simulated_annealing_optimize made on
\* objects of the heap.
FrameIterPerTemp == 1

\* None (astar's not-found value); astar never returns an empty list.
MaxRunTrucks == 2
MaxT0 == 4
MaxTMin == 2
MaxCoolingIterPerTemp == 2
None == <<>>

-----------------------------------------------------------------------------
(* Python helpers *)

RECURSIVE SqrtSearch(_, _, _)
SqrtSearch(n, lo, hi) ==
    IF lo >= hi THEN lo
    ELSE CHOOSE root \in
             {IF mid * mid <= n THEN SqrtSearch(n, mid, hi)
              ELSE SqrtSearch(n, lo, mid - 1) :
                 mid \in {(lo + hi + 1) \div 2}} : TRUE

\* math.sqrt on a non-negative number, rounded down to the resolution.
sqrt(n) ==
    CHOOSE root \in {SqrtSearch(m, 0, IF m < 46340 THEN m ELSE 46340) :
                        m \in {n}} : TRUE

\* d[key] = val on an insertion-ordered dict kept as a sequence of
\* <<key, value>>: an existing key keeps its place, a new key goes last.
RECURSIVE DictSet(_, _, _)
DictSet(d, key, val) ==
    IF d = <<>> THEN << <<key, val>> >>
    ELSE IF Head(d)[1] = key THEN << <<key, val>> >> \o Tail(d)
    ELSE <<Head(d)>> \o DictSet(Tail(d), key, val)

DictKeys(d) == {d[k][1] : k \in 1..Len(d)}

DictGet(d, key) == d[CHOOSE k \in 1..Len(d) : d[k][1] = key][2]

-----------------------------------------------------------------------------
(* graph.py *)

\* Node.__init__
Node(node_id, x, y) == [id |-> node_id, x |-> x, y |-> y, neighbors |-> <<>>]

\* Graph.__init__
EmptyGraph == [nodes |-> <<>>, edges |-> {}]

\* Graph.add_node: the new Node replaces whatever nodes[node_id] held.
add_node(G, node_id, x, y) ==
    [G EXCEPT !.nodes = [k \in (DOMAIN G.nodes) \cup {node_id} |->
                            IF k = node_id THEN Node(node_id, x, y)
                            ELSE G.nodes[k]]]

\* Mutant of add_edge_raises: `and` in place of `or`.
add_edge_raises_both(G, node_id1, node_id2) ==
    node_id1 \notin DOMAIN G.nodes /\ node_id2 \notin DOMAIN G.nodes

\* Whether Graph.add_edge raises ValueError.
add_edge_raises(G, node_id1, node_id2) ==
    node_id1 \notin DOMAIN G.nodes \/ node_id2 \notin DOMAIN G.nodes

\* Graph.add_edge when it does not raise. The edge key, tuple(sorted(...)),
\* is the unordered pair.
add_edge(G, node_id1, node_id2, distance) ==
    LET n1 == [G.nodes EXCEPT ![node_id1].neighbors =
                   DictSet(@, node_id2, distance)]
        n2 == [n1 EXCEPT ![node_id2].neighbors =
                   DictSet(@, node_id1, distance)]
    IN  [nodes |-> n2, edges |-> G.edges \cup {{node_id1, node_id2}}]

\* Graph.euclidean
euclidean(G, node_id1, node_id2) ==
    IF node_id1 \notin DOMAIN G.nodes \/ node_id2 \notin DOMAIN G.nodes
    THEN Inf
    ELSE LET dx == G.nodes[node_id1].x - G.nodes[node_id2].x
             dy == G.nodes[node_id1].y - G.nodes[node_id2].y
         IN  sqrt(dx * dx + dy * dy)

\* Graph.get_neighbors
get_neighbors(G, node_id) ==
    IF node_id \notin DOMAIN G.nodes THEN <<>>
    ELSE G.nodes[node_id].neighbors

\* f"N{i}_{j}"
grid_id(i, j) == "N" \o ToString(i) \o "_" \o ToString(j)

\* First loop of load_from_grid, cells k = i * width + j in row-major order.
RECURSIVE GridNodes(_, _, _, _, _, _)
GridNodes(G, width, height, spacing, obstacles, k) ==
    IF k >= width * height THEN G
    ELSE LET i == k \div width
             j == k % width
             G1 == IF <<i, j>> \notin obstacles
                   THEN add_node(G, grid_id(i, j), j * spacing, i * spacing)
                   ELSE G
         IN  GridNodes(G1, width, height, spacing, obstacles, k + 1)

\* The innermost body of the second loop of load_from_grid: the edge from
\* cell (i, j) to its neighbour (ni, nj), when that is an unblocked cell.
GridEdge(G, width, height, spacing, obstacles, i, j, ni, nj) ==
    IF /\ 0 <= ni /\ ni < height
       /\ 0 <= nj /\ nj < width
       /\ <<ni, nj>> \notin obstacles
    THEN add_edge(G, grid_id(i, j), grid_id(ni, nj), spacing)
    ELSE G

\* Second loop of load_from_grid, cells k = i * width + j in row-major order;
\* the neighbours of a cell in the order up, down, left, right. (A graph
\* without nodes gets no edges; the test also makes TLC evaluate G here.)
RECURSIVE GridEdges(_, _, _, _, _, _)
GridEdges(G, width, height, spacing, obstacles, k) ==
    IF k >= width * height \/ G.nodes = <<>> THEN G
    ELSE LET i == k \div width
             j == k % width
             up == GridEdge(G, width, height, spacing, obstacles, i, j, i - 1, j)
             down == GridEdge(up, width, height, spacing, obstacles, i, j, i + 1, j)
             left == GridEdge(down, width, height, spacing, obstacles, i, j, i, j - 1)
             right == GridEdge(left, width, height, spacing, obstacles, i, j, i, j + 1)
         IN  GridEdges(IF <<i, j>> \in obstacles THEN G ELSE right,
                       width, height, spacing, obstacles, k + 1)

\* Graph.load_from_grid
load_from_grid(G, width, height, spacing, obstacles) ==
    GridEdges(GridNodes(G, width, height, spacing, obstacles, 0),
              width, height, spacing, obstacles, 0)

-----------------------------------------------------------------------------
(* astar.py *)

\* reconstruct_path, built front to back: the path that ends in current_id.
RECURSIVE reconstruct_path(_, _)
reconstruct_path(came_from, current_id) ==
    IF current_id \in DOMAIN came_from
    THEN Append(reconstruct_path(came_from, came_from[current_id]), current_id)
    ELSE <<current_id>>

\* Mutant of HeapLeq: the priority is compared the wrong way round, so the
\* entry with the largest f_score is popped.
HeapLeq_largest(e, o) == e[1] > o[1] \/ (e[1] = o[1] /\ e[2] <= o[2])

\* Mutant of HeapLeq: among equal priorities the entry pushed last comes first.
HeapLeq_lifo(e, o) == e[1] < o[1] \/ (e[1] = o[1] /\ e[2] >= o[2])

\* Tuple order of the heap entries (f_score, counter, node_id); the counters
\* are all different, so the node ids are never compared.
HeapLeq(e, o) == e[1] < o[1] \/ (e[1] = o[1] /\ e[2] <= o[2])

\* What heapq.heappop returns.
HeapMin(open_set) == CHOOSE e \in open_set : \A o \in open_set : HeapLeq(e, o)

\* The a-star state of a call that has returned `result`.
AstarReturned(start_id, goal_id, result) ==
    [pc |-> "done", start_id |-> start_id, goal_id |-> goal_id,
     counter |-> 0, open_set |-> {}, g_score |-> <<>>, f_score |-> <<>>,
     came_from |-> <<>>, closed_set |-> {}, result |-> result]

\* astar up to its while loop (lines 23-44).
AstarEnter(G, start_id, goal_id) ==
    IF start_id \notin DOMAIN G.nodes \/ goal_id \notin DOMAIN G.nodes
    THEN AstarReturned(start_id, goal_id, None)
    ELSE IF start_id = goal_id
    THEN AstarReturned(start_id, goal_id, <<start_id>>)
    ELSE [pc |-> "loop", start_id |-> start_id, goal_id |-> goal_id,
          counter |-> 1,
          open_set |-> {<<0, 0, start_id>>},
          g_score |-> (start_id :> 0),
          f_score |-> (start_id :> euclidean(G, start_id, goal_id)),
          came_from |-> <<>>,
          closed_set |-> {},
          result |-> None]

\* The test of line 67.
Improves(a, neighbor_id, tentative_g) ==
    neighbor_id \notin DOMAIN a.g_score \/ tentative_g < a.g_score[neighbor_id]

\* Mutant of Relax: line 68 records the start, not the node being expanded.
Relax_fromstart(G, a, current_id, neighbor_id, distance) ==
    IF neighbor_id \in a.closed_set THEN a
    ELSE LET tentative_g == a.g_score[current_id] + distance
         IN  IF Improves(a, neighbor_id, tentative_g)
             THEN LET f == tentative_g + euclidean(G, neighbor_id, a.goal_id)
                  IN  [a EXCEPT
                         !.came_from = (neighbor_id :> a.start_id) @@ @,
                         !.g_score = (neighbor_id :> tentative_g) @@ @,
                         !.f_score = (neighbor_id :> f) @@ @,
                         !.open_set = @ \cup {<<f, a.counter, neighbor_id>>},
                         !.counter = @ + 1]
             ELSE a

\* The body of `for neighbor_id, distance in neighbors.items()` for one entry.
Relax(G, a, current_id, neighbor_id, distance) ==
    IF neighbor_id \in a.closed_set THEN a
    ELSE LET tentative_g == a.g_score[current_id] + distance
         IN  IF Improves(a, neighbor_id, tentative_g)
             THEN LET f == tentative_g + euclidean(G, neighbor_id, a.goal_id)
                  IN  [a EXCEPT
                         !.came_from = (neighbor_id :> current_id) @@ @,
                         !.g_score = (neighbor_id :> tentative_g) @@ @,
                         !.f_score = (neighbor_id :> f) @@ @,
                         !.open_set = @ \cup {<<f, a.counter, neighbor_id>>},
                         !.counter = @ + 1]
             ELSE a

\* Mutant of RelaxAll: the for loop stops after the first neighbor.
RelaxAll_first(G, a, current_id, neighbors, k) ==
    IF neighbors = <<>> THEN a
    ELSE Relax(G, a, current_id, neighbors[1][1], neighbors[1][2])

\* `for neighbor_id, distance in neighbors.items()` from the k-th entry on.
\* The state after the k-th entry is bound as the element of a one-element
\* set, so that it is computed once however often the later entries read it.
RECURSIVE RelaxAll(_, _, _, _, _)
RelaxAll(G, a, current_id, neighbors, k) ==
    IF k > Len(neighbors) THEN a
    ELSE CHOOSE r \in {RelaxAll(G, relaxed, current_id, neighbors, k + 1) :
                          relaxed \in {Relax(G, a, current_id,
                                              neighbors[k][1], neighbors[k][2])}} : TRUE

\* One pass of `while open_set` (lines 46-76), the return after it included.
AstarIter(G, a) ==
    IF a.open_set = {} THEN [a EXCEPT !.pc = "done", !.result = None]
    ELSE LET e == HeapMin(a.open_set)
             current_id == e[3]
             popped == [a EXCEPT !.open_set = @ \ {e}]
         IN  IF current_id \in a.closed_set THEN popped
             ELSE LET closed == [popped EXCEPT !.closed_set = @ \cup {current_id}]
                  IN  IF current_id = a.goal_id
                      THEN [closed EXCEPT
                              !.pc = "done",
                              !.result = reconstruct_path(a.came_from, current_id)]
                      ELSE RelaxAll(G, closed, current_id,
                                    get_neighbors(G, current_id), 1)

RECURSIVE AstarRun(_, _)
AstarRun(G, a) == IF a.pc = "done" THEN a ELSE AstarRun(G, AstarIter(G, a))

\* astar
astar(G, start_id, goal_id) == AstarRun(G, AstarEnter(G, start_id, goal_id)).result

\* No call of astar in progress.
AstarIdle == AstarReturned("", "", None)

-----------------------------------------------------------------------------
(* greedy_init.py *)

\* Truck ids by position in the truck list.
TruckId(k) == "T" \o ToString(k)

\* The capacity of the truck `id` of a truck list.
TruckCapacity(trucks, id) ==
    trucks[CHOOSE k \in 1..Len(trucks) : trucks[k].id = id].capacity

\* No call of greedy_initial_solution in progress.
GreedyIdle ==
    [pc |-> "idle", tps_dict |-> <<>>, trucks |-> <<>>, depot_id |-> "",
     routes |-> <<>>, remaining_tps |-> {}, truck_remaining_capacity |-> <<>>,
     truck |-> 0, current_location |-> "", current_capacity |-> 0,
     todo |-> {}]

\* `for truck in trucks` reaches the truck at position k (lines 60-62); past
\* the last truck the leftover pass starts (lines 96-98), its for loop still
\* to visit every remaining site.
GreedyForTruck(g, k) ==
    IF k <= Len(g.trucks)
    THEN [g EXCEPT !.pc = "pass1", !.truck = k,
                   !.current_location = g.depot_id,
                   !.current_capacity = g.truck_remaining_capacity[g.trucks[k].id]]
    ELSE [g EXCEPT !.pc = "leftover", !.truck = k, !.todo = g.remaining_tps]

\* greedy_initial_solution up to the first truck (lines 53-62). tps_dict maps
\* the node id of every TPS of tps_list to its demand.
GreedyEnter(tps_dict, depot_id, trucks) ==
    GreedyForTruck(
        [pc |-> "pass1", tps_dict |-> tps_dict, trucks |-> trucks,
         depot_id |-> depot_id,
         routes |-> [id \in {trucks[k].id : k \in 1..Len(trucks)} |-> <<>>],
         remaining_tps |-> DOMAIN tps_dict,
         truck_remaining_capacity |->
             [id \in {trucks[k].id : k \in 1..Len(trucks)} |->
                 TruckCapacity(trucks, id)],
         truck |-> 0, current_location |-> depot_id, current_capacity |-> 0,
         todo |-> {}],
        1)

\* Mutant of GreedyBest: line 79 is forgotten, the scan ends on any site that
\* fits, near or far.
GreedyBest_anyfit(G, g) ==
    {n \in g.remaining_tps :
        /\ ~(g.tps_dict[n] > g.current_capacity)
        /\ euclidean(G, g.current_location, n) < Inf}

\* The sites the scan of lines 69-81 can end on: those that fit the current
\* capacity, at a distance below float('inf'), and no farther than any other
\* such site. The scan keeps the first of them in the set's iteration order,
\* which Python leaves open.
GreedyBest(G, g) ==
    LET fits == {n \in g.remaining_tps :
                    /\ ~(g.tps_dict[n] > g.current_capacity)
                    /\ euclidean(G, g.current_location, n) < Inf}
    IN  {n \in fits : \A o \in fits :
            euclidean(G, g.current_location, n)
                <= euclidean(G, g.current_location, o)}

\* Mutant of GreedyAppend: remaining_tps.remove(best_tps_node) is forgotten.
GreedyAppend_noremove(g, best_tps_node) ==
    [g EXCEPT !.routes[g.trucks[g.truck].id] = Append(@, best_tps_node),
              !.current_location = best_tps_node,
              !.current_capacity = @ - g.tps_dict[best_tps_node]]

\* Lines 87-94: the chosen site joins the current truck's route.
GreedyAppend(g, best_tps_node) ==
    [g EXCEPT !.routes[g.trucks[g.truck].id] = Append(@, best_tps_node),
              !.current_location = best_tps_node,
              !.current_capacity = @ - g.tps_dict[best_tps_node],
              !.remaining_tps = @ \ {best_tps_node}]

\* The trucks, in order, that the leftover pass finds to have room for a
\* demand (line 102).
GreedyRoom(g, demand) ==
    {k \in 1..Len(g.trucks) :
        g.truck_remaining_capacity[g.trucks[k].id] >= demand}

\* Mutant of GreedyLeftoverSite: line 104 is forgotten, the demand appended
\* is not taken off the truck's capacity.
GreedyLeftoverSite_nocharge(g, tps_node_id) ==
    LET demand == g.tps_dict[tps_node_id]
        room == GreedyRoom(g, demand)
        visited == [g EXCEPT !.todo = @ \ {tps_node_id}]
    IN  IF room = {} THEN visited
        ELSE LET k == CHOOSE k \in room : \A o \in room : k <= o
             IN  [visited EXCEPT
                     !.routes[g.trucks[k].id] = Append(@, tps_node_id)]

\* Lines 99-105 for one site of the leftover pass.
GreedyLeftoverSite(g, tps_node_id) ==
    LET demand == g.tps_dict[tps_node_id]
        room == GreedyRoom(g, demand)
        visited == [g EXCEPT !.todo = @ \ {tps_node_id}]
    IN  IF room = {} THEN visited
        ELSE LET k == CHOOSE k \in room : \A o \in room : k <= o
                 id == g.trucks[k].id
             IN  [visited EXCEPT
                     !.routes[id] = Append(@, tps_node_id),
                     !.truck_remaining_capacity[id] = @ - demand]

\* What a caller keeps of a returned call of greedy_initial_solution: the
\* arguments and the routes of line 107.
GreedyRun(g) ==
    [tps_dict |-> g.tps_dict, depot_id |-> g.depot_id, trucks |-> g.trucks,
     routes |-> g.routes]

-----------------------------------------------------------------------------
(* two_opt.py *)

\* calculate_route_distance(graph, route). The route is bound as the element
\* of a one-element set, so that it is computed once however often it is
\* read.
RECURSIVE calculate_route_distance(_, _)
calculate_route_distance(G, route) ==
    CHOOSE distance \in
        {IF Len(r) < 2 THEN 0
         ELSE euclidean(G, r[1], r[2]) + calculate_route_distance(G, Tail(r)) :
            r \in {route}} : TRUE

\* calculate_total_distance(graph, routes); routes is a dict, kept as a
\* sequence of <<truck_id, route>>.
RECURSIVE calculate_total_distance(_, _)
calculate_total_distance(G, routes) ==
    CHOOSE distance \in
        {IF r = <<>> THEN 0
         ELSE calculate_route_distance(G, r[1][2])
                  + calculate_total_distance(G, Tail(r)) :
            r \in {routes}} : TRUE

\* Mutant of TwoOptGain: the two sums change sides.
TwoOptGain_swapped(G, best_route, i, j) ==
    (euclidean(G, best_route[i], best_route[j]) +
     euclidean(G, best_route[i + 1], best_route[j + 2]))
    - (euclidean(G, best_route[i], best_route[i + 1]) +
       euclidean(G, best_route[j + 1], best_route[j + 2]))

\* current_dist - new_dist of lines 43-51 for the 0-based positions i, j
\* (best_route[i] in Python is best_route[i + 1] here).
TwoOptGain(G, best_route, i, j) ==
    (euclidean(G, best_route[i], best_route[i + 1]) +
     euclidean(G, best_route[j + 1], best_route[j + 2]))
    - (euclidean(G, best_route[i], best_route[j + 1]) +
       euclidean(G, best_route[i + 1], best_route[j + 2]))

\* Mutant of ReverseSegment: the slice is filled with its last element.
ReverseSegment_filled(best_route, i, j) ==
    [k \in 1..Len(best_route) |->
        IF k >= i + 1 /\ k <= j + 1 THEN best_route[j + 1]
        ELSE best_route[k]]

\* best_route[i:j+1] = reversed(best_route[i:j+1]), i and j 0-based (line 53).
ReverseSegment(best_route, i, j) ==
    [k \in 1..Len(best_route) |->
        IF k >= i + 1 /\ k <= j + 1 THEN best_route[i + j + 2 - k]
        ELSE best_route[k]]

\* The pairs (i, j) the nested for loops of lines 40-41 visit, 0-based.
TwoOptPairs(best_route) ==
    {p \in (1..Len(best_route) - 3) \X (2..Len(best_route) - 2) : p[1] < p[2]}

\* The pairs whose reversal passes the test of line 51.
TwoOptImproving(G, best_route, improvement_threshold) ==
    {p \in TwoOptPairs(best_route) :
        TwoOptGain(G, best_route, p[1], p[2]) > improvement_threshold}

\* The first pair the loops meet: smallest i, then smallest j.
FirstPair(pairs) ==
    CHOOSE p \in pairs : \A q \in pairs :
        p[1] < q[1] \/ (p[1] = q[1] /\ p[2] <= q[2])

TwoOptIdle ==
    [pc |-> "idle", route |-> <<>>, improvement_threshold |-> 0,
     max_iterations |-> 0, best_route |-> <<>>, improved |-> FALSE,
     iteration |-> 0, runs |-> 0, converged |-> FALSE]

\* two_opt_single_route up to its loop (lines 32-34). `runs` counts the
\* applications so far and `converged` keeps how the previous one ended.
TwoOptEnter(o, route, improvement_threshold, max_iterations) ==
    [pc |-> "loop", route |-> route,
     improvement_threshold |-> improvement_threshold,
     max_iterations |-> max_iterations,
     best_route |-> route, improved |-> TRUE, iteration |-> 0,
     runs |-> o.runs + 1, converged |-> o.pc = "done" /\ ~o.improved]

\* Mutant of TwoOptIter: `improved = True` (line 54) is forgotten.
TwoOptIter_noflag(G, o) ==
    LET pairs == TwoOptImproving(G, o.best_route, o.improvement_threshold)
    IN  IF pairs = {}
        THEN [o EXCEPT !.improved = FALSE, !.iteration = @ + 1]
        ELSE [o EXCEPT !.improved = FALSE, !.iteration = @ + 1,
                       !.best_route = ReverseSegment(@, FirstPair(pairs)[1],
                                                     FirstPair(pairs)[2])]

\* One pass of the while loop (lines 37-58): the scan stops at the first pair
\* that passes the test and reverses it.
TwoOptIter(G, o) ==
    CHOOSE scanned \in
        {IF pairs = {}
         THEN [o EXCEPT !.improved = FALSE, !.iteration = @ + 1]
         ELSE [o EXCEPT !.improved = TRUE, !.iteration = @ + 1,
                        !.best_route = ReverseSegment(@, FirstPair(pairs)[1],
                                                      FirstPair(pairs)[2])] :
            pairs \in {TwoOptImproving(G, o.best_route,
                                       o.improvement_threshold)}} : TRUE

\* Mutant of TwoOptGoesOn: the test of the iteration count is forgotten.
TwoOptGoesOn_nolimit(o) == o.improved

\* The condition of the while loop (line 36).
TwoOptGoesOn(o) == o.improved /\ o.iteration < o.max_iterations

-----------------------------------------------------------------------------
(* sa_optimizer.py *)

\* The number in a truck id: TruckNumber(TruckId(k)) = k.
TruckNumber(truck_id) == CHOOSE k \in 1..MaxTrucks : TruckId(k) = truck_id

\* sorted(keys) for truck ids "T1" .. "T9", whose string order is the order
\* of their numbers.
RECURSIVE sorted(_)
sorted(keys) ==
    IF keys = {} THEN <<>>
    ELSE LET first == CHOOSE a \in keys :
                          \A o \in keys : TruckNumber(a) <= TruckNumber(o)
         IN  <<first>> \o sorted(keys \ {first})

\* The loop of routes_to_tps_order (lines 40-50) over the truck ids left.
RECURSIVE TpsOrderLoop(_, _, _, _, _)
TpsOrderLoop(routes, depot_id, truck_ids, all_tps, route_indices) ==
    IF truck_ids = <<>> THEN <<all_tps, route_indices>>
    ELSE LET route == DictGet(routes, Head(truck_ids))
             stops == SelectSeq(route, LAMBDA node_id : node_id # depot_id)
         IN  TpsOrderLoop(routes, depot_id, Tail(truck_ids), all_tps \o stops,
                          Append(route_indices,
                                 <<Len(all_tps), Len(all_tps) + Len(stops)>>))

\* routes_to_tps_order(routes, depot_id): <<all_tps, route_indices>>, the
\* indices 0-based as in the code.
routes_to_tps_order(routes, depot_id) ==
    TpsOrderLoop(routes, depot_id, sorted(DictKeys(routes)), <<>>, <<>>)

\* tps_order[start_idx:end_idx]
Slice(tps_order, start_idx, end_idx) ==
    SubSeq(tps_order, start_idx + 1,
           IF end_idx < Len(tps_order) THEN end_idx ELSE Len(tps_order))

\* tps_order_to_routes(tps_order, route_indices, truck_ids, depot_id)
tps_order_to_routes(tps_order, route_indices, truck_ids, depot_id) ==
    [k \in 1..(IF Len(truck_ids) < Len(route_indices)
               THEN Len(truck_ids) ELSE Len(route_indices)) |->
        <<truck_ids[k],
          <<depot_id>> \o Slice(tps_order, route_indices[k][1],
                                route_indices[k][2]) \o <<depot_id>>>>]

\* tps_order[idx1], tps_order[idx2] = tps_order[idx2], tps_order[idx1]
SwapStops(tps_order, idx1, idx2) ==
    [k \in 1..Len(tps_order) |->
        IF k = idx1 + 1 THEN tps_order[idx2 + 1]
        ELSE IF k = idx2 + 1 THEN tps_order[idx1 + 1]
        ELSE tps_order[k]]

\* Mutant of MoveStop: the node popped is not inserted again.
MoveStop_lost(tps_order, idx, new_pos) ==
    SubSeq(tps_order, 1, idx) \o SubSeq(tps_order, idx + 2, Len(tps_order))

\* tps_node = tps_order.pop(idx); tps_order.insert(new_pos, tps_node)
MoveStop(tps_order, idx, new_pos) ==
    LET popped == SubSeq(tps_order, 1, idx)
                      \o SubSeq(tps_order, idx + 2, Len(tps_order))
    IN  SubSeq(popped, 1, new_pos) \o <<tps_order[idx + 1]>>
            \o SubSeq(popped, new_pos + 1, Len(popped))

\* The values random.randint(0, len(tps_order) - 1) can give for routes.
NeighborDraws(routes, depot_id) ==
    LET n == Len(routes_to_tps_order(routes, depot_id)[1])
    IN  IF n >= 2 THEN 0..n - 1 ELSE {0}

\* generate_neighbor_solution(routes, depot_id) when random.random() < 0.5 is
\* `coin` and the two calls of random.randint return idx1 and idx2.
generate_neighbor_solution(routes, depot_id, coin, idx1, idx2) ==
    LET truck_ids == sorted(DictKeys(routes))
        flat == routes_to_tps_order(routes, depot_id)
        tps_order ==
            IF Len(flat[1]) < 2 \/ idx1 = idx2 THEN flat[1]
            ELSE IF coin THEN SwapStops(flat[1], idx1, idx2)
            ELSE MoveStop(flat[1], idx1, idx2)
    IN  tps_order_to_routes(tps_order, flat[2], truck_ids, depot_id)

AnnealIdle ==
    [pc |-> "idle", routes |-> <<>>, depot_id |-> "", cooling_rate |-> 0,
     iter_per_temp |-> 0, t_min |-> 0, current_routes |-> <<>>,
     best_routes |-> <<>>, current_cost |-> 0, best_cost |-> 0,
     temperature |-> 0, trial |-> 0, neighbor_routes |-> <<>>,
     neighbor_cost |-> 0]

\* simulated_annealing_optimize up to its loop (lines 121-127). cooling_rate
\* is in hundredths; neighbor_routes is unbound (<<>>) before the first trial.
AnnealEnter(G, routes, depot_id, t0, cooling_rate, iter_per_temp, t_min) ==
    [pc |-> "loop", routes |-> routes, depot_id |-> depot_id,
     cooling_rate |-> cooling_rate, iter_per_temp |-> iter_per_temp,
     t_min |-> t_min, current_routes |-> routes, best_routes |-> routes,
     current_cost |-> calculate_total_distance(G, routes),
     best_cost |-> calculate_total_distance(G, routes),
     temperature |-> t0, trial |-> 0, neighbor_routes |-> <<>>,
     neighbor_cost |-> 0]

\* The outcomes of the test of line 138: TRUE when delta < 0; when delta = 0,
\* math.exp gives 1.0, above every value of random.random(); otherwise either,
\* unless math.exp underflows to 0.0 (past 745).
AcceptChances(delta, temperature) ==
    IF delta <= 0 THEN {TRUE}
    ELSE IF delta > 745 * temperature THEN {FALSE}
    ELSE {TRUE, FALSE}

\* Mutant of AnnealAccept: the best solution is replaced on every acceptance.
AnnealAccept_always(a) ==
    [a EXCEPT !.current_routes = a.neighbor_routes,
              !.current_cost = a.neighbor_cost,
              !.best_routes = a.neighbor_routes,
              !.best_cost = a.neighbor_cost]

\* Mutant of AnnealAccept: the test of line 143 reads the current cost of
\* before the acceptance.
AnnealAccept_stale(a) ==
    [a EXCEPT !.current_routes = a.neighbor_routes,
              !.current_cost = a.neighbor_cost,
              !.best_routes = IF a.current_cost < a.best_cost
                              THEN a.neighbor_routes ELSE @,
              !.best_cost = IF a.current_cost < a.best_cost
                            THEN a.neighbor_cost ELSE @]

\* Lines 139-145: the neighbor is accepted.
AnnealAccept(a) ==
    [a EXCEPT !.current_routes = a.neighbor_routes,
              !.current_cost = a.neighbor_cost,
              !.best_routes = IF a.neighbor_cost < a.best_cost
                              THEN a.neighbor_routes ELSE @,
              !.best_cost = IF a.neighbor_cost < a.best_cost
                            THEN a.neighbor_cost ELSE @]

\* One pass of the for loop (lines 131-145). The locals after line 134 are
\* bound as the element of a one-element set, so that they are computed once.
AnnealIter(G, a, coin, idx1, idx2, accepted) ==
    LET neighbor_routes ==
            generate_neighbor_solution(a.current_routes, a.depot_id,
                                       coin, idx1, idx2)
        generated == [a EXCEPT !.neighbor_routes = neighbor_routes,
                               !.neighbor_cost =
                                   calculate_total_distance(G, neighbor_routes),
                               !.trial = @ + 1]
    IN  CHOOSE tried \in {IF accepted THEN AnnealAccept(g) ELSE g :
                             g \in {generated}} : TRUE

\* temperature * cooling_rate as the float multiplication gives it: the
\* product rounded to the nearest value there is, a tie going to the even
\* one. The values are the multiples of the resolution, as the floats next
\* to zero are the multiples of the smallest of them; cooling_rate is in
\* hundredths.
FloatProduct(temperature, cooling_rate) ==
    LET whole == (temperature * cooling_rate) \div 100
        part == (temperature * cooling_rate) % 100
    IN  IF 2 * part > 100 \/ (2 * part = 100 /\ whole % 2 = 1)
        THEN whole + 1 ELSE whole

\* temperature *= cooling_rate (line 148), and the for loop starts again.
AnnealCooled(a) ==
    [a EXCEPT !.temperature = FloatProduct(@, a.cooling_rate), !.trial = 0]

-----------------------------------------------------------------------------
(* module random, as sa_optimizer.py uses it (lines 80-90 and 138) *)

\* The generator behind random.random and random.randint is one object of
\* the process. It is modelled by a linear congruential generator of period
\* RandMax: seeded is FALSE while nothing has called random.seed, and then
\* its state is not known.
RandomIdle == [seeded |-> FALSE, seed |-> 0, state |-> 0]

\* random.seed(a)
RandomSeeded(a) == [seeded |-> TRUE, seed |-> a, state |-> a % RandMax]

\* The generator after one draw; the draw is its new state.
RandomNext(r) == [r EXCEPT !.state = (5 * @ + 3) % RandMax]

\* The generator after k draws.
RECURSIVE RandomAfter(_, _)
RandomAfter(r, k) == IF k = 0 THEN r ELSE RandomAfter(RandomNext(r), k - 1)

\* The k-th draw from generator r, as a number of 1/RandMax.
RandomDrawn(r, k) == RandomAfter(r, k).state

\* random.randint(0, n - 1) made from the draw u.
randint(u, n) == u % n

\* random.random() < math.exp(-delta / temperature) when random.random() is
\* u / RandMax; math.exp(-x) is taken as 1 / (1 + x + x^2/2 + x^3/6).
RandomBelowExp(u, delta, temperature) ==
    LET t == temperature
        d == delta
    IN  u * (6 * t * t * t + 6 * t * t * d + 3 * t * d * d + d * d * d)
            < RandMax * 6 * t * t * t

\* One pass of the for loop (lines 131-145) with the draws taken from the
\* generator r: <<the state of the function, the generator>> after it.
\* random.random() is drawn first (line 80); the two calls of random.randint
\* follow when len(tps_order) >= 2 (lines 82-83 or 89-90); line 138 draws
\* once more unless delta < 0.
AnnealIterDrawn(G, a, r) ==
    LET n == Len(routes_to_tps_order(a.current_routes, a.depot_id)[1])
        coin == RandomDrawn(r, 1) < RandMax \div 2
        idx1 == IF n >= 2 THEN randint(RandomDrawn(r, 2), n) ELSE 0
        idx2 == IF n >= 2 THEN randint(RandomDrawn(r, 3), n) ELSE 0
        drawn == IF n >= 2 THEN 3 ELSE 1
        neighbor_routes ==
            generate_neighbor_solution(a.current_routes, a.depot_id,
                                       coin, idx1, idx2)
        delta == calculate_total_distance(G, neighbor_routes) - a.current_cost
        chances == AcceptChances(delta, a.temperature)
        accepted ==
            IF chances = {TRUE, FALSE}
            THEN RandomBelowExp(RandomDrawn(r, drawn + 1), delta, a.temperature)
            ELSE TRUE \in chances
    IN  <<AnnealIter(G, a, coin, idx1, idx2, accepted),
          RandomAfter(r, IF delta < 0 THEN drawn ELSE drawn + 1)>>

\* What a call that has returned leaves in `logged`.
AnnealRun(a, seed) ==
    [seed |-> seed, routes |-> a.routes, iter_per_temp |-> a.iter_per_temp,
     result |-> a.best_routes]

-----------------------------------------------------------------------------
(* greedy_init.py, format_routes_with_depot; vrp_solver.py *)

FormatIdle == [pc |-> "idle", routes |-> <<>>, depot_id |-> "", formatted |-> <<>>]

\* Mutant of format_routes_with_depot: the depot is added at the end only.
format_routes_with_depot_tail(routes, depot_id) ==
    [k \in 1..Len(routes) |-> <<routes[k][1], routes[k][2] \o <<depot_id>>>>]

\* format_routes_with_depot(routes, depot_id)
format_routes_with_depot(routes, depot_id) ==
    [k \in 1..Len(routes) |->
        <<routes[k][1], <<depot_id>> \o routes[k][2] \o <<depot_id>>>>]

PathsIdle ==
    [pc |-> "idle", routes |-> <<>>, full_paths_dict |-> <<>>, result |-> <<>>]

\* The paths of one truck (lines 33-45): astar between consecutive stops, or
\* the direct pair when astar finds no path.
TruckPaths(G, route) ==
    [i \in 1..Len(route) - 1 |->
        LET path == astar(G, route[i], route[i + 1])
        IN  IF path = None THEN <<route[i], route[i + 1]>> ELSE path]

\* VRPSolver.compute_full_paths(routes)
compute_full_paths(G, routes) ==
    [k \in 1..Len(routes) |-> <<routes[k][1], TruckPaths(G, routes[k][2])>>]

\* Mutant of FlattenPaths: every path is added whole.
RECURSIVE FlattenPaths_whole(_, _, _)
FlattenPaths_whole(paths, i, full_path) ==
    IF i > Len(paths) THEN full_path
    ELSE FlattenPaths_whole(paths, i + 1, full_path \o paths[i])

\* The loop of lines 67-72 from the path at position i (1-based) on.
RECURSIVE FlattenPaths(_, _, _)
FlattenPaths(paths, i, full_path) ==
    IF i > Len(paths) THEN full_path
    ELSE FlattenPaths(paths, i + 1,
                      full_path \o (IF i = 1 THEN paths[i] ELSE Tail(paths[i])))

\* VRPSolver.compute_full_paths_as_single_list(routes), with its locals.
compute_full_paths_as_single_list(G, routes) ==
    LET full_paths_dict == compute_full_paths(G, routes)
    IN  [pc |-> "done", routes |-> routes, full_paths_dict |-> full_paths_dict,
         result |-> [k \in 1..Len(full_paths_dict) |->
                        <<full_paths_dict[k][1],
                          FlattenPaths(full_paths_dict[k][2], 1, <<>>)>>]]

\* a + b on floats, either of which may be float('inf').
FloatSum(a, b) == IF a >= Inf \/ b >= Inf THEN Inf ELSE a + b

\* compute_path_distance(graph, path) of astar.py
RECURSIVE compute_path_distance(_, _)
compute_path_distance(G, path) ==
    IF Len(path) < 2 THEN 0
    ELSE FloatSum(euclidean(G, path[1], path[2]),
                  compute_path_distance(G, Tail(path)))

\* The metrics of no truck.
NoMetrics ==
    [total_distance |-> 0, distances_per_truck |-> <<>>, num_trucks |-> 0,
     num_stops |-> 0]

\* The for loop of evaluate_routes (lines 130-134) from the k-th truck on.
RECURSIVE EvaluateLoop(_, _, _, _)
EvaluateLoop(G, full_paths, k, metrics) ==
    IF k > Len(full_paths) THEN metrics
    ELSE LET path == full_paths[k][2]
             distance == compute_path_distance(G, path)
         IN  EvaluateLoop(G, full_paths, k + 1,
                 [metrics EXCEPT
                     !.distances_per_truck =
                         DictSet(@, full_paths[k][1], distance),
                     !.total_distance = FloatSum(@, distance),
                     !.num_stops = @ + Len(path) - 2])

\* VRPSolver.evaluate_routes(full_paths)
evaluate_routes(G, full_paths) ==
    [EvaluateLoop(G, full_paths, 1, NoMetrics) EXCEPT
        !.num_trucks = Len(full_paths)]

\* The for loop of evaluate_routes_simple (lines 157-164) from the k-th
\* truck on.
RECURSIVE EvaluateSimpleLoop(_, _, _, _, _)
EvaluateSimpleLoop(G, routes, depot_id, k, metrics) ==
    IF k > Len(routes) THEN metrics
    ELSE LET route == routes[k][2]
             distance == compute_path_distance(G, route)
         IN  EvaluateSimpleLoop(G, routes, depot_id, k + 1,
                 [metrics EXCEPT
                     !.distances_per_truck = DictSet(@, routes[k][1], distance),
                     !.total_distance = FloatSum(@, distance),
                     !.num_stops =
                         @ + Len(SelectSeq(route, LAMBDA n : n # depot_id))])

\* VRPSolver.evaluate_routes_simple(routes)
evaluate_routes_simple(G, routes, depot_id) ==
    [EvaluateSimpleLoop(G, routes, depot_id, 1, NoMetrics) EXCEPT
        !.num_trucks = Len(routes)]

\* Neither function has been called.
EvaluateIdle ==
    [evaluated |-> FALSE, metrics |-> NoMetrics,
     simple_evaluated |-> FALSE, simple_metrics |-> NoMetrics]

-----------------------------------------------------------------------------
(* Objects and references: the stages above, with the lists and dicts they
   are given, make and change kept as objects at addresses *)

\* heap[a] is the object at address a: a list of node ids, or a dict as a
\* sequence of <<key, address of a list>>. A new object gets the next
\* address: <<the heap with it, its address>>.
new(h, obj) == <<Append(h, obj), Len(h) + 1>>

\* Mutant of deepcopy_list: `best_route = route`, the same object.
deepcopy_list_alias(h, a) == <<h, a>>

\* copy.deepcopy of a list of strings: a new list with the same elements.
deepcopy_list(h, a) == new(h, h[a])

\* copy.deepcopy of the entries of a dict from the k-th on; every value is a
\* list of its own.
RECURSIVE DeepcopyEntries(_, _, _, _)
DeepcopyEntries(h, entries, k, copied) ==
    IF k > Len(entries) THEN <<h, copied>>
    ELSE LET c == deepcopy_list(h, entries[k][2])
         IN  DeepcopyEntries(c[1], entries, k + 1,
                             Append(copied, <<entries[k][1], c[2]>>))

\* copy.deepcopy of a dict of lists.
deepcopy(h, d) ==
    LET c == DeepcopyEntries(h, h[d], 1, <<>>)
    IN  new(c[1], c[2])

\* The dict at address d with its lists in place of their addresses.
ValueOf(h, d) == [k \in 1..Len(h[d]) |-> <<h[d][k][1], h[h[d][k][2]]>>]

\* A dict built entry by entry from lists made for it (`routes[truck_id] =
\* [depot_id] + tps_segment + [depot_id]` and the like).
RECURSIVE StoreEntries(_, _, _, _)
StoreEntries(h, routes, k, entries) ==
    IF k > Len(routes) THEN new(h, entries)
    ELSE LET l == new(h, routes[k][2])
         IN  StoreEntries(l[1], routes, k + 1,
                          Append(entries, <<routes[k][1], l[2]>>))

Store(h, routes) == StoreEntries(h, routes, 1, <<>>)

\* The while loop of two_opt_single_route (lines 36-58) on the list at
\* address a: line 53 assigns to a slice of that list.
RECURSIVE TwoOptInPlace(_, _, _, _, _, _)
TwoOptInPlace(G, h, a, improvement_threshold, iteration, max_iterations) ==
    IF iteration >= max_iterations THEN h
    ELSE LET pairs == TwoOptImproving(G, h[a], improvement_threshold)
         IN  IF pairs = {} THEN h
             ELSE TwoOptInPlace(
                      G,
                      [h EXCEPT ![a] = ReverseSegment(@, FirstPair(pairs)[1],
                                                      FirstPair(pairs)[2])],
                      a, improvement_threshold, iteration + 1, max_iterations)

\* two_opt_single_route(graph, route, improvement_threshold, max_iterations):
\* <<the heap after the call, the address returned>>.
two_opt_single_route(G, h, route, improvement_threshold, max_iterations) ==
    LET best_route == deepcopy_list(h, route)
    IN  <<TwoOptInPlace(G, best_route[1], best_route[2],
                        improvement_threshold, 0, max_iterations),
          best_route[2]>>

\* The for loop of optimize_routes_2opt (lines 80-83) from the k-th entry on.
RECURSIVE Optimize2optLoop(_, _, _, _, _, _, _)
Optimize2optLoop(G, h, entries, k, improvement_threshold, max_iterations, optimized_routes) ==
    IF k > Len(entries) THEN new(h, optimized_routes)
    ELSE LET r == two_opt_single_route(G, h, entries[k][2],
                                       improvement_threshold, max_iterations)
         IN  Optimize2optLoop(G, r[1], entries, k + 1, improvement_threshold,
                              max_iterations,
                              Append(optimized_routes, <<entries[k][1], r[2]>>))

\* optimize_routes_2opt(graph, routes, improvement_threshold, max_iterations)
optimize_routes_2opt(G, h, routes, improvement_threshold, max_iterations) ==
    Optimize2optLoop(G, h, h[routes], 1, improvement_threshold,
                     max_iterations, <<>>)

\* format_routes_with_depot(routes, depot_id) on the dict at address routes:
\* line 124 makes each list by concatenation.
format_routes_with_depot_at(h, routes, depot_id) ==
    Store(h, format_routes_with_depot(ValueOf(h, routes), depot_id))

\* generate_neighbor_solution(routes, depot_id) on the dict at address
\* routes: the copy of line 75, the list all_tps of routes_to_tps_order
\* (line 37) changed in place by lines 85 or 93-94, and the dict and lists
\* tps_order_to_routes makes (lines 58-62).
generate_neighbor_solution_at(h, routes, depot_id, coin, idx1, idx2) ==
    LET new_routes == deepcopy(h, routes)
        copied == ValueOf(new_routes[1], new_routes[2])
        truck_ids == sorted(DictKeys(copied))
        flat == routes_to_tps_order(copied, depot_id)
        tps_order == new(new_routes[1], flat[1])
        moved ==
            IF Len(flat[1]) < 2 \/ idx1 = idx2 THEN tps_order[1]
            ELSE [tps_order[1] EXCEPT
                     ![tps_order[2]] = IF coin THEN SwapStops(@, idx1, idx2)
                                       ELSE MoveStop(@, idx1, idx2)]
    IN  Store(moved, tps_order_to_routes(moved[tps_order[2]], flat[2],
                                         truck_ids, depot_id))

\* No call in progress. fn is the function called, arg and result the
\* addresses given and returned, before the heap at the call, loc the locals
\* of simulated_annealing_optimize.
FrameIdle ==
    [fn |-> "", pc |-> "idle", arg |-> 0, before |-> <<>>, result |-> 0,
     changed |-> FALSE, loc |-> <<>>]

\* A call of fn on the object at arg, made on heap h, that has returned the
\* object at result and left the heap after; `changed` tells whether what it
\* returned differs from what it was given.
FrameReturned(fn, h, arg, after, result) ==
    [fn |-> fn, pc |-> "returned", arg |-> arg, before |-> h,
     result |-> result,
     changed |-> IF fn = "two_opt_single_route" THEN after[result] # h[arg]
                 ELSE ValueOf(after, result) # ValueOf(h, arg),
     loc |-> <<>>]

\* simulated_annealing_optimize up to its loop (lines 121-127):
\* <<the heap, the locals>>.
AnnealEnterAt(G, h, routes, t0) ==
    LET current_routes == deepcopy(h, routes)
        best_routes == deepcopy(current_routes[1], routes)
        current_cost ==
            calculate_total_distance(G, ValueOf(best_routes[1],
                                                current_routes[2]))
    IN  <<best_routes[1],
          [current_routes |-> current_routes[2],
           best_routes |-> best_routes[2],
           current_cost |-> current_cost, best_cost |-> current_cost,
           temperature |-> t0, trial |-> 0]>>

\* One pass of the for loop (lines 131-145): <<the heap, the locals>>.
\* Line 139 makes current_routes the neighbor itself, line 144 copies it.
AnnealIterAt(G, h, loc, depot_id, coin, idx1, idx2, accepted) ==
    LET neighbor_routes ==
            generate_neighbor_solution_at(h, loc.current_routes, depot_id,
                                          coin, idx1, idx2)
        neighbor_cost ==
            calculate_total_distance(G, ValueOf(neighbor_routes[1],
                                                neighbor_routes[2]))
        best_routes == deepcopy(neighbor_routes[1], neighbor_routes[2])
    IN  IF ~accepted
        THEN <<neighbor_routes[1], [loc EXCEPT !.trial = @ + 1]>>
        ELSE IF neighbor_cost < loc.best_cost
        THEN <<best_routes[1],
               [loc EXCEPT !.current_routes = neighbor_routes[2],
                           !.current_cost = neighbor_cost,
                           !.best_routes = best_routes[2],
                           !.best_cost = neighbor_cost,
                           !.trial = @ + 1]>>
        ELSE <<neighbor_routes[1],
               [loc EXCEPT !.current_routes = neighbor_routes[2],
                           !.current_cost = neighbor_cost,
                           !.trial = @ + 1]>>

\* The objects a caller reaches from what fn returned: the list, or the dict
\* and its lists.
Reached(h, fn, result) ==
    IF fn = "two_opt_single_route" THEN {result}
    ELSE {result} \cup {h[result][k][2] : k \in 1..Len(h[result])}

OthersIdle ==
    /\ rnd = RandomIdle
    /\ logged = {}
    /\ heap = <<>>
    /\ fr = FrameIdle
    /\ ev = EvaluateIdle

-----------------------------------------------------------------------------
(* Calls *)

\* graph.add_node(node_id, x, y)
AddNode(node_id, x, y) ==
    /\ pc = "build"
    /\ graph' = add_node(graph, node_id, x, y)
    /\ raised' = ""
    /\ UNCHANGED <<otherVars, pc, ast, gr, stageVars>>

\* graph.add_edge(node_id1, node_id2, distance)
AddEdge(node_id1, node_id2, distance) ==
    /\ pc = "build"
    /\ IF add_edge_raises(graph, node_id1, node_id2)
       THEN graph' = graph /\ raised' = "ValueError"
       ELSE graph' = add_edge(graph, node_id1, node_id2, distance) /\ raised' = ""
    /\ UNCHANGED <<otherVars, pc, ast, gr, stageVars>>

\* astar(graph, start_id, goal_id) is called and runs up to its loop.
AstarCall(start_id, goal_id) ==
    /\ pc = "build"
    /\ pc' = "astar"
    /\ ast' = AstarEnter(graph, start_id, goal_id)
    /\ UNCHANGED <<otherVars, graphVars, gr, stageVars>>

\* One pass of astar's while loop.
AstarLoop ==
    /\ pc = "astar"
    /\ ast.pc = "loop"
    /\ ast' = AstarIter(graph, ast)
    /\ UNCHANGED <<otherVars, graphVars, pc, gr, stageVars>>

\* graph.load_from_grid(width, height, spacing, obstacles)
LoadFromGrid(width, height, spacing, obstacles) ==
    /\ pc = "build"
    /\ graph' = load_from_grid(graph, width, height, spacing, obstacles)
    /\ raised' = ""
    /\ UNCHANGED <<otherVars, pc, ast, gr, stageVars>>

\* greedy_initial_solution(graph, tps_list, depot_id, trucks) is called and
\* runs up to the first truck.
GreedyCall(tps_dict, depot_id, trucks) ==
    /\ pc = "ready"
    /\ pc' = "greedy"
    /\ gr' = GreedyEnter(tps_dict, depot_id, trucks)
    /\ UNCHANGED <<otherVars, graphVars, ast, stageVars>>

\* One pass of `while remaining_tps` that appends a site (lines 64-94).
GreedyPick ==
    /\ pc = "greedy"
    /\ gr.pc = "pass1"
    /\ gr.remaining_tps # {}
    /\ \E best_tps_node \in GreedyBest(graph, gr) :
           gr' = GreedyAppend(gr, best_tps_node)
    /\ UNCHANGED <<otherVars, graphVars, pc, ast, stageVars>>

\* The while loop ends, on its condition or on the break of line 85, and the
\* for loop goes to the next truck.
GreedyNextTruck ==
    /\ pc = "greedy"
    /\ gr.pc = "pass1"
    /\ gr.remaining_tps = {} \/ GreedyBest(graph, gr) = {}
    /\ gr' = GreedyForTruck(gr, gr.truck + 1)
    /\ UNCHANGED <<otherVars, graphVars, pc, ast, stageVars>>

\* The leftover pass visits one more site, in the set's iteration order.
GreedyLeftover ==
    /\ pc = "greedy"
    /\ gr.pc = "leftover"
    /\ \E tps_node_id \in gr.todo :
           gr' = GreedyLeftoverSite(gr, tps_node_id)
    /\ UNCHANGED <<otherVars, graphVars, pc, ast, stageVars>>

\* return routes
GreedyReturn ==
    /\ pc = "greedy"
    /\ gr.pc = "leftover"
    /\ gr.todo = {}
    /\ gr' = [gr EXCEPT !.pc = "done"]
    /\ UNCHANGED <<otherVars, graphVars, pc, ast, stageVars>>

\* The caller takes the routes of a returned call and is ready for another.
GreedyLogged ==
    /\ pc = "greedy"
    /\ gr.pc = "done"
    /\ pc' = "ready"
    /\ logged' = logged \cup {GreedyRun(gr)}
    /\ UNCHANGED <<graphVars, ast, gr, stageVars, rnd, heap, fr, ev>>

\* two_opt_single_route(graph, route, improvement_threshold, max_iterations)
\* is called and runs up to its loop.
TwoOptCall(route, improvement_threshold, max_iterations) ==
    /\ pc = "ready"
    /\ pc' = "two_opt"
    /\ opt' = TwoOptEnter(opt, route, improvement_threshold, max_iterations)
    /\ UNCHANGED <<otherVars, graphVars, ast, gr, sa, fmt, fp>>

\* One pass of two_opt_single_route's while loop.
TwoOptLoop ==
    /\ pc = "two_opt"
    /\ opt.pc = "loop"
    /\ TwoOptGoesOn(opt)
    /\ opt' = TwoOptIter(graph, opt)
    /\ UNCHANGED <<otherVars, graphVars, pc, ast, gr, sa, fmt, fp>>

\* return best_route
TwoOptReturn ==
    /\ pc = "two_opt"
    /\ opt.pc = "loop"
    /\ ~TwoOptGoesOn(opt)
    /\ opt' = [opt EXCEPT !.pc = "done"]
    /\ UNCHANGED <<otherVars, graphVars, pc, ast, gr, sa, fmt, fp>>

\* two_opt_single_route is called again, on the route it returned and with
\* the same threshold.
TwoOptAgain(max_iterations) ==
    /\ pc = "two_opt"
    /\ opt.pc = "done"
    /\ opt.runs = 1
    /\ opt' = TwoOptEnter(opt, opt.best_route, opt.improvement_threshold,
                          max_iterations)
    /\ UNCHANGED <<otherVars, graphVars, pc, ast, gr, sa, fmt, fp>>

\* simulated_annealing_optimize(graph, routes, depot_id, t0, cooling_rate,
\* iter_per_temp, t_min) is called and runs up to its loop.
AnnealCall(routes, depot_id, t0, cooling_rate, iter_per_temp, t_min) ==
    /\ pc = "ready"
    /\ pc' = "anneal"
    /\ sa' = AnnealEnter(graph, routes, depot_id, t0, cooling_rate,
                         iter_per_temp, t_min)
    /\ UNCHANGED <<otherVars, graphVars, ast, gr, opt, fmt, fp>>

\* generate_neighbor_solution(routes, depot_id) is called, the test of line
\* 80 sends it into the swap branch (lines 81-85), and it returns.
NeighborSwapped(routes, depot_id) ==
    /\ pc = "ready"
    /\ Len(routes_to_tps_order(routes, depot_id)[1]) >= 2
    /\ pc' = "neighbor"
    /\ \E idx1 \in NeighborDraws(routes, depot_id),
          idx2 \in NeighborDraws(routes, depot_id) :
         sa' = [AnnealIdle EXCEPT
                   !.pc = "swapped", !.routes = routes, !.depot_id = depot_id,
                   !.neighbor_routes =
                       generate_neighbor_solution(routes, depot_id, TRUE,
                                                  idx1, idx2)]
    /\ UNCHANGED <<otherVars, graphVars, ast, gr, opt, fmt, fp>>

\* generate_neighbor_solution(routes, depot_id) is called, the test of line
\* 80 sends it into the else branch (lines 86-94), and it returns.
NeighborMoved(routes, depot_id) ==
    /\ pc = "ready"
    /\ pc' = "neighbor"
    /\ \E idx \in NeighborDraws(routes, depot_id),
          new_pos \in NeighborDraws(routes, depot_id) :
         sa' = [AnnealIdle EXCEPT
                   !.pc = "moved", !.routes = routes, !.depot_id = depot_id,
                   !.neighbor_routes =
                       generate_neighbor_solution(routes, depot_id, FALSE,
                                                  idx, new_pos)]
    /\ UNCHANGED <<otherVars, graphVars, ast, gr, opt, fmt, fp>>

\* One trial: a neighbor is generated from the draws of `random` and is
\* accepted or not.
AnnealTrial ==
    /\ pc = "anneal"
    /\ sa.pc = "loop"
    /\ sa.temperature > sa.t_min
    /\ sa.trial < sa.iter_per_temp
    /\ \E coin \in BOOLEAN,
          idx1 \in NeighborDraws(sa.current_routes, sa.depot_id),
          idx2 \in NeighborDraws(sa.current_routes, sa.depot_id) :
         LET neighbor_routes ==
                 generate_neighbor_solution(sa.current_routes, sa.depot_id,
                                            coin, idx1, idx2)
             delta == calculate_total_distance(graph, neighbor_routes)
                          - sa.current_cost
         IN  \E accepted \in AcceptChances(delta, sa.temperature) :
                 sa' = AnnealIter(graph, sa, coin, idx1, idx2, accepted)
    /\ UNCHANGED <<otherVars, graphVars, pc, ast, gr, opt, fmt, fp>>

\* The for loop is over: the temperature goes down.
AnnealCool ==
    /\ pc = "anneal"
    /\ sa.pc = "loop"
    /\ sa.temperature > sa.t_min
    /\ sa.trial = sa.iter_per_temp
    /\ sa' = AnnealCooled(sa)
    /\ UNCHANGED <<otherVars, graphVars, pc, ast, gr, opt, fmt, fp>>

\* The while loop is over: return best_routes.
AnnealReturn ==
    /\ pc = "anneal"
    /\ sa.pc = "loop"
    /\ ~(sa.temperature > sa.t_min)
    /\ sa' = [sa EXCEPT !.pc = "done"]
    /\ UNCHANGED <<otherVars, graphVars, pc, ast, gr, opt, fmt, fp>>

\* One trial with the draws taken from the seeded generator of module random.
AnnealTrialDrawn ==
    /\ pc = "anneal"
    /\ sa.pc = "loop"
    /\ sa.temperature > sa.t_min
    /\ sa.trial < sa.iter_per_temp
    /\ rnd.seeded
    /\ sa' = AnnealIterDrawn(graph, sa, rnd)[1]
    /\ rnd' = AnnealIterDrawn(graph, sa, rnd)[2]
    /\ UNCHANGED <<graphVars, pc, ast, gr, opt, fmt, fp, logged, heap, fr, ev>>

\* The caller of simulated_annealing_optimize has its result.
AnnealLogged ==
    /\ pc = "anneal"
    /\ sa.pc = "done"
    /\ pc' = "ready"
    /\ logged' = logged \cup {AnnealRun(sa, rnd.seed)}
    /\ UNCHANGED <<graphVars, ast, gr, stageVars, rnd, heap, fr, ev>>

\* random.seed(a), called by the caller of the optimizer (src/run.py:55).
RandomSeed(a) ==
    /\ pc = "ready"
    /\ rnd' = RandomSeeded(a)
    /\ UNCHANGED <<graphVars, pc, ast, gr, stageVars, logged, heap, fr, ev>>

\* Any other draw from module random in the process (src/run.py:62, 67).
RandomOther ==
    /\ pc = "ready"
    /\ rnd.seeded
    /\ rnd' = RandomNext(rnd)
    /\ UNCHANGED <<graphVars, pc, ast, gr, stageVars, logged, heap, fr, ev>>

\* two_opt_single_route(graph, route) with the default threshold (0.001,
\* below the resolution) and limit, on the list at address route.
TwoOptSingleAt(route) ==
    /\ pc = "ready"
    /\ pc' = "frame"
    /\ LET r == two_opt_single_route(graph, heap, route, 0,
                                     DefaultMaxIterations)
       IN  /\ heap' = r[1]
           /\ fr' = FrameReturned("two_opt_single_route", heap, route,
                                  r[1], r[2])
    /\ UNCHANGED <<graphVars, ast, gr, stageVars, rnd, logged, ev>>

\* optimize_routes_2opt(graph, routes) on the dict at address routes.
Optimize2optAt(routes) ==
    /\ pc = "ready"
    /\ pc' = "frame"
    /\ LET r == optimize_routes_2opt(graph, heap, routes, 0,
                                     DefaultMaxIterations)
       IN  /\ heap' = r[1]
           /\ fr' = FrameReturned("optimize_routes_2opt", heap, routes,
                                  r[1], r[2])
    /\ UNCHANGED <<graphVars, ast, gr, stageVars, rnd, logged, ev>>

\* format_routes_with_depot(routes, depot_id) on the dict at address routes.
FormatAt(routes, depot_id) ==
    /\ pc = "ready"
    /\ pc' = "frame"
    /\ LET r == format_routes_with_depot_at(heap, routes, depot_id)
       IN  /\ heap' = r[1]
           /\ fr' = FrameReturned("format_routes_with_depot", heap, routes,
                                  r[1], r[2])
    /\ UNCHANGED <<graphVars, ast, gr, stageVars, rnd, logged, ev>>

\* generate_neighbor_solution(routes, depot_id) on the dict at address
\* routes, with any draws.
NeighborAt(routes, depot_id) ==
    /\ pc = "ready"
    /\ pc' = "frame"
    /\ \E coin \in BOOLEAN,
          idx1 \in NeighborDraws(ValueOf(heap, routes), depot_id),
          idx2 \in NeighborDraws(ValueOf(heap, routes), depot_id) :
         LET r == generate_neighbor_solution_at(heap, routes, depot_id,
                                                coin, idx1, idx2)
         IN  /\ heap' = r[1]
             /\ fr' = FrameReturned("generate_neighbor_solution", heap,
                                    routes, r[1], r[2])
    /\ UNCHANGED <<graphVars, ast, gr, stageVars, rnd, logged, ev>>

\* simulated_annealing_optimize(graph, routes, depot_id, t0, ...) on the
\* dict at address routes, up to its loop.
AnnealAt(routes, t0) ==
    /\ pc = "ready"
    /\ pc' = "frame"
    /\ LET r == AnnealEnterAt(graph, heap, routes, t0)
       IN  /\ heap' = r[1]
           /\ fr' = [fn |-> "simulated_annealing_optimize", pc |-> "loop",
                     arg |-> routes, before |-> heap, result |-> 0,
                     changed |-> FALSE, loc |-> r[2]]
    /\ UNCHANGED <<graphVars, ast, gr, stageVars, rnd, logged, ev>>

\* One trial of the call in progress, with any draws.
AnnealAtTrial(depot_id, iter_per_temp, t_min) ==
    /\ pc = "frame"
    /\ fr.pc = "loop"
    /\ fr.loc.temperature > t_min
    /\ fr.loc.trial < iter_per_temp
    /\ \E coin \in BOOLEAN,
          idx1 \in NeighborDraws(ValueOf(heap, fr.loc.current_routes), depot_id),
          idx2 \in NeighborDraws(ValueOf(heap, fr.loc.current_routes), depot_id) :
         LET neighbor_routes ==
                 generate_neighbor_solution(
                     ValueOf(heap, fr.loc.current_routes), depot_id,
                     coin, idx1, idx2)
             delta == calculate_total_distance(graph, neighbor_routes)
                          - fr.loc.current_cost
         IN  \E accepted \in AcceptChances(delta, fr.loc.temperature) :
                 LET r == AnnealIterAt(graph, heap, fr.loc, depot_id,
                                       coin, idx1, idx2, accepted)
                 IN  /\ heap' = r[1]
                     /\ fr' = [fr EXCEPT !.loc = r[2]]
    /\ UNCHANGED <<graphVars, pc, ast, gr, stageVars, rnd, logged, ev>>

\* The for loop of the call in progress is over: the temperature goes down.
AnnealAtCool(cooling_rate, iter_per_temp, t_min) ==
    /\ pc = "frame"
    /\ fr.pc = "loop"
    /\ fr.loc.temperature > t_min
    /\ fr.loc.trial = iter_per_temp
    /\ fr' = [fr EXCEPT !.loc.temperature = FloatProduct(@, cooling_rate),
                        !.loc.trial = 0]
    /\ UNCHANGED <<graphVars, pc, ast, gr, stageVars, rnd, logged, heap, ev>>

\* The while loop of the call in progress is over: return best_routes.
AnnealAtReturn(t_min) ==
    /\ pc = "frame"
    /\ fr.pc = "loop"
    /\ ~(fr.loc.temperature > t_min)
    /\ fr' = [FrameReturned(fr.fn, fr.before, fr.arg, heap,
                            fr.loc.best_routes) EXCEPT !.loc = fr.loc]
    /\ UNCHANGED <<graphVars, pc, ast, gr, stageVars, rnd, logged, heap, ev>>

\* The caller empties an object it got back (list.clear(), dict.clear()).
CallerClears(a) ==
    /\ pc = "frame"
    /\ fr.pc = "returned"
    /\ a \in Reached(heap, fr.fn, fr.result)
    /\ heap' = [heap EXCEPT ![a] = <<>>]
    /\ fr' = [fr EXCEPT !.pc = "written"]
    /\ UNCHANGED <<graphVars, pc, ast, gr, stageVars, rnd, logged, ev>>

\* The caller appends a node to a list it got back (list.append(node_id)).
CallerAppends(a, node_id) ==
    /\ pc = "frame"
    /\ fr.pc = "returned"
    /\ a \in Reached(heap, fr.fn, fr.result)
    /\ fr.fn = "two_opt_single_route" \/ a # fr.result
    /\ heap' = [heap EXCEPT ![a] = Append(@, node_id)]
    /\ fr' = [fr EXCEPT !.pc = "written"]
    /\ UNCHANGED <<graphVars, pc, ast, gr, stageVars, rnd, logged, ev>>

\* format_routes_with_depot(routes, depot_id)
FormatCall(routes, depot_id) ==
    /\ pc = "ready"
    /\ pc' = "format"
    /\ fmt' = [pc |-> "done", routes |-> routes, depot_id |-> depot_id,
               formatted |-> format_routes_with_depot(routes, depot_id)]
    /\ UNCHANGED <<otherVars, graphVars, ast, gr, opt, sa, fp>>

\* VRPSolver(graph, depot_id).compute_full_paths_as_single_list(routes)
FullPathsCall(routes) ==
    /\ pc = "ready"
    /\ pc' = "paths"
    /\ fp' = compute_full_paths_as_single_list(graph, routes)
    /\ UNCHANGED <<otherVars, graphVars, ast, gr, opt, sa, fmt>>

\* solver.evaluate_routes(full_paths) on what
\* compute_full_paths_as_single_list returned.
EvaluateRoutes ==
    /\ pc = "paths"
    /\ fp.pc = "done"
    /\ ~ev.evaluated
    /\ ev' = [ev EXCEPT !.evaluated = TRUE,
                        !.metrics = evaluate_routes(graph, fp.result)]
    /\ UNCHANGED <<graphVars, pc, ast, gr, stageVars, rnd, logged, heap, fr>>

\* solver.evaluate_routes_simple(routes) on the routes the full paths were
\* computed for.
EvaluateRoutesSimple(depot_id) ==
    /\ pc = "paths"
    /\ fp.pc = "done"
    /\ ~ev.simple_evaluated
    /\ ev' = [ev EXCEPT !.simple_evaluated = TRUE,
                        !.simple_metrics =
                            evaluate_routes_simple(graph, fp.routes, depot_id)]
    /\ UNCHANGED <<graphVars, pc, ast, gr, stageVars, rnd, logged, heap, fr>>

-----------------------------------------------------------------------------
(* SpecAstar: a graph is built by hand, node by node and edge by edge, then
   astar is called on it once. *)

InitAstar ==
    /\ graph = EmptyGraph
    /\ raised = ""
    /\ pc = "build"
    /\ ast = AstarIdle
    /\ gr = GreedyIdle
    /\ opt = TwoOptIdle
    /\ sa = AnnealIdle
    /\ fmt = FormatIdle
    /\ fp = PathsIdle
    /\ OthersIdle

NextAstar ==
    \/ /\ pc = "build"
       /\ \E node_id \in NodeIds \ DOMAIN graph.nodes, x \in 0..MaxX, y \in 0..MaxY :
              AddNode(node_id, x * Unit, y * Unit)
    \/ /\ pc = "build"
       /\ \E a \in DOMAIN graph.nodes, b \in DOMAIN graph.nodes, w \in 1..MaxWeight :
              a # b /\ AddEdge(a, b, w * Unit)
    \/ /\ pc = "build"
       /\ \E s \in NodeIds, t \in NodeIds : AstarCall(s, t)
    \/ AstarLoop

SpecAstar == InitAstar /\ [][NextAstar]_vars

(* SpecGrid: a grid with blocked cells is loaded, then astar is called on it
   once. *)

NextGrid ==
    \/ /\ pc = "build" /\ graph = EmptyGraph
       /\ \E width \in 1..MaxWidth, height \in 1..MaxHeight, spacing \in Spacings :
            \E obstacles \in SUBSET ((0..height - 1) \X (0..width - 1)) :
              LoadFromGrid(width, height, spacing, obstacles)
    \/ /\ pc = "build"
       /\ \E s \in DOMAIN graph.nodes, t \in DOMAIN graph.nodes : AstarCall(s, t)
    \/ AstarLoop

SpecGrid == InitAstar /\ [][NextGrid]_vars

(* SpecBuild: a graph is built by any sequence of add_node, add_edge and
   load_from_grid calls, ids reused and unknown ids included, then astar is
   called on it once. *)

NextBuild ==
    \/ /\ pc = "build"
       /\ \E node_id \in BuildIds, x \in 0..MaxBuildX : AddNode(node_id, x * Unit, 0)
    \/ /\ pc = "build"
       /\ \E a \in EdgeIds, b \in EdgeIds, w \in 1..MaxBuildWeight :
              a # b /\ AddEdge(a, b, w * Unit)
    \/ /\ pc = "build"
       /\ \E width \in 1..MaxBuildWidth : LoadFromGrid(width, 1, Unit, {})
    \/ /\ pc = "build"
       /\ \E s \in EdgeIds, t \in EdgeIds : AstarCall(s, t)
    \/ AstarLoop

SpecBuild == InitAstar /\ [][NextBuild]_vars

(* SpecReach: astar is called once, on known or unknown ids, on a grid of
   PathWidth x PathHeight cells with any cells blocked, whose corner N0_0 was
   or was not added again by add_node after the grid was loaded. A call that
   has started goes on running: nothing else runs in the process and no step
   of the loop blocks. *)

\* The cells of the PathWidth x PathHeight grid, blocked or not.
PathCells == {grid_id(i, j) : i \in 0..PathHeight - 1, j \in 0..PathWidth - 1}

InitReach ==
    /\ \E obstacles \in SUBSET ((0..PathHeight - 1) \X (0..PathWidth - 1)),
          again \in BOOLEAN :
          LET G == load_from_grid(EmptyGraph, PathWidth, PathHeight, Unit,
                                  obstacles)
          IN  graph = IF again THEN add_node(G, Depot, 0, 0) ELSE G
    /\ raised = ""
    /\ pc = "build"
    /\ ast = AstarIdle
    /\ gr = GreedyIdle
    /\ opt = TwoOptIdle
    /\ sa = AnnealIdle
    /\ fmt = FormatIdle
    /\ fp = PathsIdle
    /\ OthersIdle

NextReach ==
    \/ /\ pc = "build"
       /\ \E s \in PathCells, t \in PathCells : AstarCall(s, t)
    \/ AstarLoop

SpecReach == InitReach /\ [][NextReach]_vars /\ WF_vars(AstarLoop)

(* SpecGreedy: on the grid of RouteGraph, greedy_initial_solution is called
   once on a set of demand sites and a list of trucks. *)

RouteGraph == load_from_grid(EmptyGraph, 2, 2, Unit, {})

Sites == DOMAIN RouteGraph.nodes \ {Depot}

InitRoutes ==
    /\ graph = RouteGraph
    /\ raised = ""
    /\ pc = "ready"
    /\ ast = AstarIdle
    /\ gr = GreedyIdle
    /\ opt = TwoOptIdle
    /\ sa = AnnealIdle
    /\ fmt = FormatIdle
    /\ fp = PathsIdle
    /\ OthersIdle

TruckLists ==
    UNION {[1..n -> 1..MaxCapacity] : n \in 0..MaxTrucks}

NextGreedy ==
    \/ /\ pc = "ready"
       /\ \E nodes \in SUBSET Sites, caps \in TruckLists :
            \E tps_dict \in [nodes -> 1..MaxDemand] :
              GreedyCall(tps_dict, Depot,
                         [k \in 1..Len(caps) |->
                             [id |-> TruckId(k), capacity |-> caps[k]]])
    \/ GreedyPick
    \/ GreedyNextTruck
    \/ GreedyLeftover
    \/ GreedyReturn

SpecGreedy == InitRoutes /\ [][NextGreedy]_vars

(* SpecGreedyRuns: greedy_initial_solution is called on a set of demand
   sites and a list of trucks, and after it returned it is called again with
   the arguments of a call made before. remaining_tps is a set of str and
   lines 69 and 98 walk it in the order of the strings' hashes, which the
   interpreter salts anew in every process: each walk is a choice. *)

RunTruckLists ==
    UNION {[1..n -> 1..MaxCapacity] : n \in 0..MaxRunTrucks}

NextGreedyRuns ==
    \/ /\ pc = "ready"
       /\ logged = {}
       /\ \E nodes \in SUBSET Sites, caps \in RunTruckLists :
            \E tps_dict \in [nodes -> 1..MaxDemand] :
              GreedyCall(tps_dict, Depot,
                         [k \in 1..Len(caps) |->
                             [id |-> TruckId(k), capacity |-> caps[k]]])
    \/ /\ pc = "ready"
       /\ \E r \in logged : GreedyCall(r.tps_dict, r.depot_id, r.trucks)
    \/ GreedyPick
    \/ GreedyNextTruck
    \/ GreedyLeftover
    \/ GreedyReturn
    \/ GreedyLogged

SpecGreedyRuns == InitRoutes /\ [][NextGreedyRuns]_vars

(* SpecTwoOpt: on the grid of TourGraph, two_opt_single_route is called on a
   depot-framed route, and then once more on the route it returned. *)

TourGraph == load_from_grid(EmptyGraph, 3, 2, Unit, {})

TourSites == DOMAIN TourGraph.nodes \ {Depot}

StopLists == UNION {[1..n -> TourSites] : n \in 0..MaxStops}

Thresholds == {0, 1, Unit}

IterationLimits == (0..MaxIterations) \cup {DefaultMaxIterations}

InitTours ==
    /\ graph = TourGraph
    /\ raised = ""
    /\ pc = "ready"
    /\ ast = AstarIdle
    /\ gr = GreedyIdle
    /\ opt = TwoOptIdle
    /\ sa = AnnealIdle
    /\ fmt = FormatIdle
    /\ fp = PathsIdle
    /\ OthersIdle

NextTwoOpt ==
    \/ /\ pc = "ready"
       /\ \E stops \in StopLists, threshold \in Thresholds,
             max_iterations \in IterationLimits :
              TwoOptCall(<<Depot>> \o stops \o <<Depot>>, threshold,
                         max_iterations)
    \/ TwoOptLoop
    \/ TwoOptReturn
    \/ /\ opt.pc = "done"
       /\ \E max_iterations \in IterationLimits : TwoOptAgain(max_iterations)

SpecTwoOpt == InitTours /\ [][NextTwoOpt]_vars

(* SpecTwoOptRuns: SpecTwoOpt for a call that is not left half-way: the
   interpreter goes on with the while loop of two_opt_single_route and with
   its return for as long as they can be taken. *)

SpecTwoOptRuns ==
    /\ InitTours
    /\ [][NextTwoOpt]_vars
    /\ WF_vars(TwoOptLoop)
    /\ WF_vars(TwoOptReturn)

(* SpecAnneal: on the grid of RouteGraph, simulated_annealing_optimize is
   called on a depot-framed solution, t0 = 2.0, cooling_rate = 0.5 and
   t_min = 0.5, so that it runs at two temperatures. *)

RECURSIVE StopCount(_)
StopCount(lists) ==
    IF lists = <<>> THEN 0 ELSE Len(Head(lists)) + StopCount(Tail(lists))

\* The dicts of n trucks, in each insertion order, whose routes go from the
\* depot through up to MaxSaStops sites in all and back to the depot.
Solutions(n) ==
    {[k \in 1..n |-> <<TruckId(order[k]), <<Depot>> \o stops[k] \o <<Depot>>>>] :
        order \in {q \in [1..n -> 1..n] : \A i, j \in 1..n : q[i] = q[j] => i = j},
        stops \in {l \in [1..n -> UNION {[1..m -> Sites] : m \in 0..MaxSaStops}] :
                      StopCount(l) <= MaxSaStops}}

NextAnneal ==
    \/ /\ pc = "ready"
       /\ \E n \in 1..MaxSaTrucks, iter_per_temp \in 0..MaxIterPerTemp :
            \E routes \in Solutions(n) :
              AnnealCall(routes, Depot, 2 * Unit, 50, iter_per_temp, Unit \div 2)
    \/ AnnealTrial
    \/ AnnealCool
    \/ AnnealReturn

SpecAnneal == InitRoutes /\ [][NextAnneal]_vars

(* SpecNeighbor: generate_neighbor_solution is called on a depot-framed
   solution, once for every draw of random.random and random.randint. *)

NextNeighbor ==
    \/ /\ pc = "ready"
       /\ \E n \in 1..MaxSaTrucks : \E routes \in Solutions(n) :
             NeighborSwapped(routes, Depot)
    \/ /\ pc = "ready"
       /\ \E n \in 1..MaxSaTrucks : \E routes \in Solutions(n) :
             NeighborMoved(routes, Depot)

SpecNeighbor == InitRoutes /\ [][NextNeighbor]_vars

(* SpecSeeded: on the grid of RouteGraph, the caller seeds module random,
   may draw from it for other purposes, and calls
   simulated_annealing_optimize on one truck's tour of the three sites, with
   the parameters of SpecAnneal; it does so again after the call returned. *)

SeededSolutions ==
    {routes \in Solutions(1) :
        /\ Len(routes[1][2]) = Cardinality(Sites) + 2
        /\ Sites \subseteq {routes[1][2][k] : k \in DOMAIN routes[1][2]}}

NextSeeded ==
    \/ /\ pc = "ready"
       /\ \E a \in 0..MaxSeed : RandomSeed(a)
    \/ RandomOther
    \/ /\ pc = "ready"
       /\ rnd.seeded
       /\ Cardinality(logged) < MaxRuns
       /\ \E routes \in SeededSolutions :
             AnnealCall(routes, Depot, 2 * Unit, 50, SeededIterPerTemp,
                        Unit \div 2)
    \/ AnnealTrialDrawn
    \/ AnnealCool
    \/ AnnealReturn
    \/ AnnealLogged

SpecSeeded == InitRoutes /\ [][NextSeeded]_vars

(* SpecCooling: simulated_annealing_optimize is called on one truck's tour
   of the three sites with a starting temperature, a cooling rate below 1, a positive
   t_min and at least one trial per temperature, and is not left half-way: the interpreter goes on with the trial,
   the cooling and the return for as long as they can be taken. *)

CoolingRates == {50, 90}

NextCooling ==
    \/ /\ pc = "ready"
       /\ \E routes \in SeededSolutions, t0 \in 0..MaxT0,
             cooling_rate \in CoolingRates,
             iter_per_temp \in 1..MaxCoolingIterPerTemp, t_min \in 1..MaxTMin :
              AnnealCall(routes, Depot, t0, cooling_rate, iter_per_temp, t_min)
    \/ AnnealTrial
    \/ AnnealCool
    \/ AnnealReturn

SpecCooling ==
    /\ InitRoutes
    /\ [][NextCooling]_vars
    /\ WF_vars(AnnealTrial)
    /\ WF_vars(AnnealCool)
    /\ WF_vars(AnnealReturn)

(* SpecFrame: on the grid of RouteGraph, a depot-framed solution of up to
   MaxSaTrucks trucks that visits each site at most once is on the heap, the
   dict last. One of the five functions is called on it (the optimizer with
   the parameters of SpecAnneal and iter_per_temp = FrameIterPerTemp), and
   then the caller changes an object it got back. *)

FrameSolutions ==
    UNION {{routes \in Solutions(n) :
               \A s \in Sites :
                   Cardinality({k \in 1..Len(routes_to_tps_order(routes, Depot)[1]) :
                                   routes_to_tps_order(routes, Depot)[1][k] = s}) <= 1} :
           n \in 1..MaxSaTrucks}

InitFrame ==
    /\ graph = RouteGraph
    /\ raised = ""
    /\ pc = "ready"
    /\ ast = AstarIdle
    /\ gr = GreedyIdle
    /\ opt = TwoOptIdle
    /\ sa = AnnealIdle
    /\ fmt = FormatIdle
    /\ fp = PathsIdle
    /\ rnd = RandomIdle
    /\ logged = {}
    /\ \E routes \in FrameSolutions : heap = Store(<<>>, routes)[1]
    /\ fr = FrameIdle
    /\ ev = EvaluateIdle

NextFrame ==
    \/ /\ pc = "ready"
       /\ \E k \in 1..Len(heap[Len(heap)]) :
             TwoOptSingleAt(heap[Len(heap)][k][2])
    \/ Optimize2optAt(Len(heap))
    \/ FormatAt(Len(heap), Depot)
    \/ NeighborAt(Len(heap), Depot)
    \/ AnnealAt(Len(heap), 2 * Unit)
    \/ AnnealAtTrial(Depot, FrameIterPerTemp, Unit \div 2)
    \/ AnnealAtCool(50, FrameIterPerTemp, Unit \div 2)
    \/ AnnealAtReturn(Unit \div 2)
    \/ /\ pc = "frame"
       /\ fr.pc = "returned"
       /\ \E a \in 1..Len(heap) : CallerClears(a)
    \/ /\ pc = "frame"
       /\ fr.pc = "returned"
       /\ \E a \in 1..Len(heap) : CallerAppends(a, Depot)

SpecFrame == InitFrame /\ [][NextFrame]_vars

(* SpecFormat: format_routes_with_depot is called on a solution of up to
   MaxFormatTrucks trucks, in each insertion order, whose routes are lists of
   nodes of RouteGraph, the depot among them. *)

FormatInputs(n) ==
    {[k \in 1..n |-> <<TruckId(order[k]), stops[k]>>] :
        order \in {q \in [1..n -> 1..n] : \A i, j \in 1..n : q[i] = q[j] => i = j},
        stops \in [1..n -> UNION {[1..m -> DOMAIN RouteGraph.nodes] :
                                     m \in 0..MaxFormatStops}]}

NextFormat ==
    /\ pc = "ready"
    /\ \E n \in 0..MaxFormatTrucks : \E routes \in FormatInputs(n) :
          FormatCall(routes, Depot)

SpecFormat == InitRoutes /\ [][NextFormat]_vars

(* SpecPaths: on a PathWidth x PathHeight grid with any cells blocked,
   compute_full_paths_as_single_list is called on depot-framed routes whose
   stops are any cells of the grid, blocked or not. *)

InitPaths ==
    /\ \E obstacles \in SUBSET ((0..PathHeight - 1) \X (0..PathWidth - 1)) :
          graph = load_from_grid(EmptyGraph, PathWidth, PathHeight, Unit, obstacles)
    /\ raised = ""
    /\ pc = "ready"
    /\ ast = AstarIdle
    /\ gr = GreedyIdle
    /\ opt = TwoOptIdle
    /\ sa = AnnealIdle
    /\ fmt = FormatIdle
    /\ fp = PathsIdle
    /\ OthersIdle

PathInputs(n) ==
    {[k \in 1..n |-> <<TruckId(k), <<Depot>> \o stops[k] \o <<Depot>>>>] :
        stops \in {l \in [1..n -> UNION {[1..m -> PathCells] : m \in 0..MaxPathStops}] :
                      StopCount(l) <= MaxPathStops}}

NextPaths ==
    /\ pc = "ready"
    /\ \E n \in 1..MaxPathTrucks : \E routes \in PathInputs(n) :
          FullPathsCall(routes)

SpecPaths == InitPaths /\ [][NextPaths]_vars

(* SpecEvaluate: as SpecPaths, and then evaluate_routes is called on the
   full paths and evaluate_routes_simple on the routes, in either order. *)

NextEvaluate ==
    \/ /\ pc = "ready"
       /\ \E n \in 1..MaxPathTrucks : \E routes \in PathInputs(n) :
             FullPathsCall(routes)
    \/ EvaluateRoutes
    \/ EvaluateRoutesSimple(Depot)

SpecEvaluate == InitPaths /\ [][NextEvaluate]_vars

-----------------------------------------------------------------------------
(* Shortest paths by exhaustive search, for the claims about astar *)

Min(S) == CHOOSE m \in S : \A o \in S : m <= o

\* The costs of the simple paths from cur to goal that avoid `visited`; an
\* edge costs its weight, or 1 when `hops`.
RECURSIVE SimpleCosts(_, _, _, _, _)
SimpleCosts(G, cur, goal, visited, hops) ==
    IF cur = goal THEN {0}
    ELSE LET nb == get_neighbors(G, cur)
         IN  UNION {{(IF hops THEN 1 ELSE nb[k][2]) + c :
                        c \in SimpleCosts(G, nb[k][1], goal,
                                          visited \cup {nb[k][1]}, hops)} :
                    k \in {i \in 1..Len(nb) : nb[i][1] \notin visited}}

Connected(G, s, t) ==
    /\ s \in DOMAIN G.nodes
    /\ t \in DOMAIN G.nodes
    /\ SimpleCosts(G, s, t, {s}, TRUE) # {}

ShortestCost(G, s, t) == Min(SimpleCosts(G, s, t, {s}, FALSE))

FewestEdges(G, s, t) == Min(SimpleCosts(G, s, t, {s}, TRUE))

\* The total edge weight of a path (Inf when a step is not an edge).
RECURSIVE PathWeight(_, _)
PathWeight(G, path) ==
    IF Len(path) < 2 THEN 0
    ELSE LET nb == get_neighbors(G, path[1])
         IN  IF path[2] \in DictKeys(nb)
             THEN DictGet(nb, path[2]) + PathWeight(G, Tail(path))
             ELSE Inf

AstarDone == pc = "astar" /\ ast.pc = "done"

-----------------------------------------------------------------------------
(* Claims *)

\* C1: on any hand-built graph with positive edge weights, when start and
\* goal are joined by a chain of edges, the path astar returns has the minimum
\* total edge weight over all start-to-goal paths.
C1_AstarOptimalAnyWeights ==
    (AstarDone /\ Connected(graph, ast.start_id, ast.goal_id))
        => /\ ast.result # None
           /\ PathWeight(graph, ast.result)
                  = ShortestCost(graph, ast.start_id, ast.goal_id)

\* C2: on every graph load_from_grid produces, for connected start and goal,
\* astar returns a path with the fewest possible edges, whose cost is the
\* true shortest-path cost.
C2_AstarOptimalOnGrid ==
    (AstarDone /\ Connected(graph, ast.start_id, ast.goal_id))
        => /\ ast.result # None
           /\ Len(ast.result) - 1 = FewestEdges(graph, ast.start_id, ast.goal_id)
           /\ PathWeight(graph, ast.result)
                  = ShortestCost(graph, ast.start_id, ast.goal_id)

\* C2's case: a search that ended on a grid with blocked cells, along a path
\* that is longer than the straight-line distance allows, so that it had to
\* go round the blocked cells.
C2_Witness ==
    /\ AstarDone
    /\ ast.result # None
    /\ Len(ast.result) >= 5
    /\ PathWeight(graph, ast.result)
          > 2 * euclidean(graph, ast.start_id, ast.goal_id)

\* The demand a route carries.
RECURSIVE Load(_, _)
Load(tps_dict, route) ==
    IF route = <<>> THEN 0
    ELSE tps_dict[Head(route)] + Load(tps_dict, Tail(route))

GreedyDone == pc = "greedy" /\ gr.pc = "done"

\* How often a site occurs in the routes.
Occurrences(routes, n) ==
    Cardinality(UNION {{<<id, k>> : k \in {i \in 1..Len(routes[id]) :
                                               routes[id][i] = n}} :
                       id \in DOMAIN routes})

TotalDemand(tps_dict) ==
    Load(tps_dict, CHOOSE q \in [1..Cardinality(DOMAIN tps_dict) -> DOMAIN tps_dict] :
                       {q[k] : k \in DOMAIN q} = DOMAIN tps_dict)

RECURSIVE TotalCapacity(_)
TotalCapacity(trucks) ==
    IF trucks = <<>> THEN 0
    ELSE Head(trucks).capacity + TotalCapacity(Tail(trucks))

\* The precondition of the happy path: the total demand is at most the total
\* capacity and every demand is at most the largest capacity.
HappyPath(g) ==
    /\ TotalDemand(g.tps_dict) <= TotalCapacity(g.trucks)
    /\ \A n \in DOMAIN g.tps_dict :
          \E k \in 1..Len(g.trucks) : g.tps_dict[n] <= g.trucks[k].capacity

\* C3: after greedy_initial_solution returns, the demands of the sites in
\* every vehicle's route sum to at most that vehicle's capacity.
C3_CapacityRespected ==
    GreedyDone =>
        \A k \in 1..Len(gr.trucks) :
            Load(gr.tps_dict, gr.routes[gr.trucks[k].id]) <= gr.trucks[k].capacity

\* C4: on the happy path greedy_initial_solution places every demand site in
\* the routes exactly once.
C4_EverySiteOnce ==
    (GreedyDone /\ HappyPath(gr)) =>
        \A n \in DOMAIN gr.tps_dict : Occurrences(gr.routes, n) = 1

\* C4 as amended: on the happy path no site is placed twice, and a site is
\* missing from every route only if, when the leftover pass is over, no
\* vehicle's original capacity minus the leftover demand appended to it
\* covers the site's demand.
C4_NoSiteTwiceMissingOnlyWithoutRoom ==
    (GreedyDone /\ HappyPath(gr)) =>
        \A n \in DOMAIN gr.tps_dict :
            /\ Occurrences(gr.routes, n) <= 1
            /\ Occurrences(gr.routes, n) = 0 => GreedyRoom(gr, gr.tps_dict[n]) = {}

\* C4's case: a happy-path call has returned, its leftover pass having placed
\* one site and found no room for another.
C4_Witness ==
    /\ GreedyDone
    /\ HappyPath(gr)
    /\ \E n \in gr.remaining_tps : Occurrences(gr.routes, n) = 1
    /\ \E n \in gr.remaining_tps : Occurrences(gr.routes, n) = 0

TwoOptDone == pc = "two_opt" /\ opt.pc = "done"

\* C5: the route two_opt_single_route returns is no longer than the route it
\* was given, and no pass of its loop, hence no single reversal, makes the
\* route longer.
C5_TwoOptNeverLonger ==
    /\ [](TwoOptDone =>
            calculate_route_distance(graph, opt.best_route)
                <= calculate_route_distance(graph, opt.route))
    /\ [][(pc = "two_opt" /\ opt.pc = "loop" /\ opt'.pc = "loop") =>
            calculate_route_distance(graph, opt'.best_route)
                <= calculate_route_distance(graph, opt.best_route)]_vars

\* C5's case: a run that reversed a segment more than once has returned a
\* route that differs from its input.
C5_Witness ==
    /\ TwoOptDone
    /\ opt.iteration >= 3
    /\ opt.best_route # opt.route
    /\ calculate_route_distance(graph, opt.best_route)
           < calculate_route_distance(graph, opt.route)

\* C6: when a run ended because a full scan found no pair to reverse, a
\* second run on its output with the same threshold returns the same route.
C6_ConvergedIsFixedPoint ==
    (TwoOptDone /\ opt.runs = 2 /\ opt.converged) => opt.best_route = opt.route

\* C6's case: the first run reversed a segment and then converged, and the
\* second run, allowed to iterate, has returned.
C6_Witness ==
    /\ TwoOptDone
    /\ opt.runs = 2
    /\ opt.converged
    /\ opt.max_iterations > 0
    /\ opt.iteration = 1
    /\ \E i \in 2..Len(opt.route) - 1 : opt.route[i] # opt.route[2]

AnnealRuns == pc = "anneal" /\ sa.pc \in {"loop", "done"}

AnnealDone == pc = "anneal" /\ sa.pc = "done"

\* C7: during simulated_annealing_optimize best_cost never goes up from one
\* trial to the next and is always the distance of best_routes, and the
\* solution returned costs no more than the solution given, whatever the
\* random draws.
C7_BestCostNeverUp ==
    /\ [](AnnealRuns =>
            sa.best_cost = calculate_total_distance(graph, sa.best_routes))
    /\ [](AnnealDone =>
            calculate_total_distance(graph, sa.best_routes)
                <= calculate_total_distance(graph, sa.routes))
    /\ [][AnnealRuns => sa'.best_cost <= sa.best_cost]_vars

\* C7's case: a run has returned a solution cheaper than its input after
\* wandering to a current solution that costs more than the best.
C7_Witness ==
    /\ AnnealDone
    /\ sa.best_cost < calculate_total_distance(graph, sa.routes)
    /\ sa.current_cost > sa.best_cost

\* C8: after every trial best_cost is at most current_cost and at most the
\* cost of the neighbor the trial generated, accepted or not; as best_cost
\* never goes up, the solution returned is the cheapest of the input and all
\* the neighbors generated.
C8_BestIsLowestSeen ==
    /\ [](AnnealRuns =>
            /\ sa.best_cost <= sa.current_cost
            /\ sa.neighbor_routes # <<>> => sa.best_cost <= sa.neighbor_cost)
    /\ [][AnnealRuns => sa'.best_cost <= sa.best_cost]_vars
    /\ [](AnnealDone => sa.best_cost <= calculate_total_distance(graph, sa.routes))

\* C8's case: the last neighbor generated was rejected, costs more than the
\* best, and the best is cheaper than the input.
C8_Witness ==
    /\ AnnealDone
    /\ sa.neighbor_routes # <<>>
    /\ sa.neighbor_routes # sa.current_routes
    /\ sa.neighbor_cost > sa.best_cost
    /\ sa.best_cost < calculate_total_distance(graph, sa.routes)

FormatDone == pc = "format" /\ fmt.pc = "done"

\* route[1:-1] on every route of a solution.
StripEnds(routes) ==
    [k \in 1..Len(routes) |->
        <<routes[k][1], SubSeq(routes[k][2], 2, Len(routes[k][2]) - 1)>>]

NoDepot(routes, depot_id) ==
    \A k \in 1..Len(routes) : \A i \in 1..Len(routes[k][2]) :
        routes[k][2][i] # depot_id

\* C9: for a stop-only solution whose routes do not contain the depot,
\* format_routes_with_depot followed by the removal of the first and last
\* element of every route gives back the solution: same vehicles in the same
\* order, same sites in the same order.
C9_FormatThenStripIsIdentity ==
    (FormatDone /\ NoDepot(fmt.routes, fmt.depot_id))
        => StripEnds(fmt.formatted) = fmt.routes

\* C9's case: a solution of two trucks, inserted out of order, one with an
\* empty route and one with two sites, has been formatted.
C9_Witness ==
    /\ FormatDone
    /\ NoDepot(fmt.routes, fmt.depot_id)
    /\ Len(fmt.routes) = 2
    /\ fmt.routes[1][1] = TruckId(2)
    /\ fmt.routes[1][2] = <<>>
    /\ Len(fmt.routes[2][2]) = 2
    /\ fmt.formatted[2][2][1] = fmt.depot_id

PathsDone == pc = "paths" /\ fp.pc = "done"

\* Where the path at position i starts in the flattened list, less one.
RECURSIVE JunctionOffset(_, _)
JunctionOffset(paths, i) ==
    IF i = 1 THEN 0
    ELSE JunctionOffset(paths, i - 1) + Len(paths[i - 1]) - 1

\* C10: for every vehicle, the list compute_full_paths_as_single_list returns
\* starts and ends with the depot, holds every segment's path in turn with
\* the stop that joins two segments present once, and so is as long as the
\* segments together less one per junction.
C10_FullPathJoinsSegments ==
    PathsDone =>
        \A k \in 1..Len(fp.routes) :
            LET paths == fp.full_paths_dict[k][2]
                full_path == fp.result[k][2]
            IN  /\ fp.result[k][1] = fp.routes[k][1]
                /\ full_path # <<>>
                /\ full_path[1] = Depot
                /\ full_path[Len(full_path)] = Depot
                /\ Len(full_path)
                      = JunctionOffset(paths, Len(paths)) + Len(paths[Len(paths)])
                /\ \A i \in 1..Len(paths) :
                      SubSeq(full_path, JunctionOffset(paths, i) + 1,
                             JunctionOffset(paths, i) + Len(paths[i])) = paths[i]

\* C10's case: one vehicle has no stop, and another has a segment for which
\* astar found a path through other cells followed by a segment that fell
\* back to the direct pair.
C10_Witness ==
    /\ PathsDone
    /\ \E k \in 1..Len(fp.routes) : fp.routes[k][2] = <<Depot, Depot>>
    /\ \E k \in 1..Len(fp.routes) :
          LET paths == fp.full_paths_dict[k][2]
          IN  /\ Len(paths) = 3
              /\ Len(paths[1]) >= 3
              /\ Len(paths[2]) = 2
              /\ astar(graph, paths[2][1], paths[2][2]) = None

\* C11: add_node with an id that is already in the graph fails with an
\* error and leaves the graph as it was.
C11_DuplicateAddNodeFails ==
    [][\A node_id \in BuildIds, x \in 0..MaxBuildX :
          (node_id \in DOMAIN graph.nodes /\ AddNode(node_id, x * Unit, 0))
              => (raised' # "" /\ graph' = graph)]_vars

\* C12: add_edge with an endpoint that is not in the graph raises and changes
\* neither the adjacency of any node nor the edge set.
C12_AddEdgeUnknownRaises ==
    [][\A a \in EdgeIds, b \in EdgeIds, w \in 1..MaxBuildWeight :
          ((a \notin DOMAIN graph.nodes \/ b \notin DOMAIN graph.nodes)
             /\ AddEdge(a, b, w * Unit))
              => (raised' = "ValueError" /\ graph' = graph)]_vars

\* C12's case: a call has raised on a graph that has nodes and edges.
C12_Witness ==
    /\ pc = "build"
    /\ raised = "ValueError"
    /\ graph.edges # {}
    /\ EdgeIds \ DOMAIN graph.nodes # {}

\* C13: after any sequence of add_node, add_edge and load_from_grid calls,
\* B is a neighbor of A with weight w exactly when A is a neighbor of B with
\* weight w, and exactly when the pair {A, B} is in the edge set.
C13_AdjacencySymmetric ==
    \A a \in DOMAIN graph.nodes, b \in DOMAIN graph.nodes :
        LET nba == get_neighbors(graph, a)
            nbb == get_neighbors(graph, b)
        IN  /\ b \in DictKeys(nba) =>
                  /\ a \in DictKeys(nbb)
                  /\ DictGet(nbb, a) = DictGet(nba, b)
            /\ a # b => ({a, b} \in graph.edges <=> b \in DictKeys(nba))

AstarLoops == pc = "astar" /\ ast.pc = "loop"

\* C14: the open-set entries carry different counters in the order of their
\* insertion; every pop takes an entry of the lowest priority and, among
\* those, the one inserted first; and a second call of astar on the same
\* graph, start and goal returns the path the first call returned.
C14_TiesFirstInFirstOut ==
    /\ [](AstarLoops =>
            \A e \in ast.open_set :
                /\ e[2] < ast.counter
                /\ \A o \in ast.open_set : e[2] = o[2] => e = o)
    /\ [][(AstarLoops /\ ast.open_set # {}) =>
            \E e \in ast.open_set :
                /\ \A o \in ast.open_set :
                      e[1] < o[1] \/ (e[1] = o[1] /\ e[2] <= o[2])
                /\ ast'.open_set \cap ast.open_set = ast.open_set \ {e}]_vars
    /\ [](AstarDone => ast.result = astar(graph, ast.start_id, ast.goal_id))

\* C14's case: after some pops, two entries of the open set share the lowest
\* priority.
C14_Witness ==
    /\ AstarLoops
    /\ ast.closed_set # {}
    /\ \E e \in ast.open_set, o \in ast.open_set :
          /\ e # o
          /\ e[1] = o[1]
          /\ e[3] # o[3]
          /\ \A p \in ast.open_set : e[1] <= p[1]

C16_SameSeedSameSolution ==
    \A r1 \in logged, r2 \in logged :
        (r1.seed = r2.seed /\ r1.routes = r2.routes
            /\ r1.iter_per_temp = r2.iter_per_temp)
            => r1.result = r2.result

\* C17: two_opt_single_route, optimize_routes_2opt,
\* generate_neighbor_solution, simulated_annealing_optimize and
\* format_routes_with_depot leave every object that was there at the call as
\* it was, during the call, at the return and after the caller changed what
\* it got back; and what they return shares no object with what they got.
C17_InputLeftAlone ==
    pc = "frame" =>
        /\ \A a \in 1..Len(fr.before) : heap[a] = fr.before[a]
        /\ fr.pc = "returned" =>
               Reached(heap, fr.fn, fr.result) \cap (1..Len(fr.before)) = {}

\* C17's case: two_opt_single_route reversed a part of the route, or another
\* of the functions returned a solution that differs from the one it got,
\* and the caller changed an object of the result.
C17_Witness ==
    /\ pc = "frame"
    /\ fr.pc = "written"
    /\ fr.changed
    /\ fr.fn = "two_opt_single_route"

EvaluateDone == pc = "paths" /\ ev.evaluated /\ ev.simple_evaluated

\* C18: for a depot-framed solution, the stop count evaluate_routes reports
\* on the full paths is the one evaluate_routes_simple reports on the routes,
\* the number of visits of sites other than the depot; it is never negative.
C18_StopCountsAgree ==
    EvaluateDone =>
        /\ ev.metrics.num_stops = ev.simple_metrics.num_stops
        /\ ev.metrics.num_stops >= 0
        /\ ev.metrics.num_stops =
               Len(routes_to_tps_order(fp.routes, Depot)[1])

\* The stops of a truck that are not the depot.
StopsOf(routes, truck_id, depot_id) ==
    SelectSeq(DictGet(routes, truck_id), LAMBDA n : n # depot_id)

\* How often node n is visited in a solution.
Visits(routes, n) ==
    Cardinality({<<k, i>> \in (1..Len(routes)) \X (1..MaxSaStops + 2) :
                    i <= Len(routes[k][2]) /\ routes[k][2][i] = n})

\* Solutions a and b have the same truck ids, as many stops for each truck,
\* and visit every site equally often.
SameShape(a, b, depot_id) ==
    /\ Len(a) = Len(b)
    /\ DictKeys(a) = DictKeys(b)
    /\ \A truck_id \in DictKeys(a) :
          Len(StopsOf(a, truck_id, depot_id)) = Len(StopsOf(b, truck_id, depot_id))
    /\ \A n \in Sites : Visits(a, n) = Visits(b, n)

\* C19: every neighbor generate_neighbor_solution produces during
\* simulated_annealing_optimize, every current and best solution, and so the
\* solution returned, has the truck ids of the input, as many stops for each
\* truck, and visits every site as often as the input does.
C19_NeighborsKeepShape ==
    AnnealRuns =>
        /\ SameShape(sa.routes, sa.current_routes, sa.depot_id)
        /\ SameShape(sa.routes, sa.best_routes, sa.depot_id)
        /\ sa.neighbor_routes # <<>> =>
               SameShape(sa.routes, sa.neighbor_routes, sa.depot_id)

\* C19's case: a call on two trucks has returned a solution in which a truck
\* visits other sites than in the input.
C19_Witness ==
    /\ AnnealDone
    /\ Len(sa.routes) = 2
    /\ \E truck_id \in DictKeys(sa.routes), n \in Sites :
          /\ n \in {DictGet(sa.routes, truck_id)[i] :
                       i \in 1..Len(DictGet(sa.routes, truck_id))}
          /\ n \notin {DictGet(sa.best_routes, truck_id)[i] :
                          i \in 1..Len(DictGet(sa.best_routes, truck_id))}

\* The demand of the sites the leftover pass has appended to a truck: the
\* sites of its route that were still unassigned after the first pass.
LeftoverLoad(g, id) ==
    Load(g.tps_dict, SelectSeq(g.routes[id], LAMBDA n : n \in g.remaining_tps))

\* The trucks whose original capacity, less the leftover demand appended to
\* them, covers a demand.
FitsLeftover(g, demand) ==
    {k \in 1..Len(g.trucks) :
        g.trucks[k].capacity - LeftoverLoad(g, g.trucks[k].id) >= demand}

C21_SameInputsSameRoutes ==
    \A r1 \in logged, r2 \in logged :
        (r1.tps_dict = r2.tps_dict /\ r1.depot_id = r2.depot_id
            /\ r1.trucks = r2.trucks)
            => r1.routes = r2.routes

\* The sites on the routes of a call of greedy_initial_solution.
Assigned(routes) ==
    UNION {{routes[id][i] : i \in 1..Len(routes[id])} : id \in DOMAIN routes}

\* C22: in the pass over the trucks every site appended to a truck's route
\* was on no route when it was chosen, had a demand of at most what was left
\* of the truck's capacity, and was no farther from the truck's location than
\* any other such site; and the pass leaves a truck only when no site that
\* is on no route fits what is left of its capacity.
C22_NearestFittingChosen ==
    [][(pc = "greedy" /\ gr.pc = "pass1") =>
        LET id == gr.trucks[gr.truck].id
            free == DOMAIN gr.tps_dict \ Assigned(gr.routes)
            fits == {o \in free : gr.tps_dict[o] <= gr.current_capacity}
        IN  /\ gr'.routes # gr.routes =>
                \E n \in fits :
                    /\ gr'.routes = [gr.routes EXCEPT ![id] = Append(@, n)]
                    /\ \A o \in fits :
                           euclidean(graph, gr.current_location, n)
                               <= euclidean(graph, gr.current_location, o)
                    /\ gr'.truck = gr.truck
            /\ gr'.truck # gr.truck => fits = {}
            /\ gr.current_capacity
                   = TruckCapacity(gr.trucks, id) - Load(gr.tps_dict, gr.routes[id])
            /\ gr.current_location
                   = IF gr.routes[id] = <<>> THEN gr.depot_id
                     ELSE gr.routes[id][Len(gr.routes[id])]
      ]_vars

\* A truck took the farthest site although a nearer one was on no route: the
\* nearer one did not fit what was left of its capacity.
C22_Witness ==
    /\ pc = "greedy"
    /\ gr.pc = "pass1"
    /\ LET route == gr.routes[gr.trucks[gr.truck].id]
       IN  /\ Len(route) = 1
           /\ \E o \in gr.remaining_tps :
                  /\ euclidean(graph, gr.depot_id, o)
                         < euclidean(graph, gr.depot_id, route[1])
                  /\ gr.tps_dict[o] > gr.current_capacity + gr.tps_dict[route[1]]

\* generate_neighbor_solution has returned from its swap branch.
NeighborSwapDone == pc = "neighbor" /\ sa.pc = "swapped"

\* The sequence with the contents of positions i and j exchanged.
Exchanged(seq, i, j) ==
    [k \in 1..Len(seq) |->
        IF k = i THEN seq[j] ELSE IF k = j THEN seq[i] ELSE seq[k]]

\* C23: from its swap branch, on a solution of at least two stops,
\* generate_neighbor_solution returns a solution whose flattened sequence is
\* the input's with the contents of two distinct positions exchanged, so
\* that it differs from the input in those two positions and no other when
\* the two stops differ.
C23_SwapExchangesTwoPositions ==
    NeighborSwapDone =>
        LET before == routes_to_tps_order(sa.routes, sa.depot_id)[1]
            after == routes_to_tps_order(sa.neighbor_routes, sa.depot_id)[1]
        IN  Len(before) >= 2 =>
                \E i \in 1..Len(before), j \in 1..Len(before) :
                    /\ i # j
                    /\ after = Exchanged(before, i, j)
                    /\ before[i] # before[j] =>
                           {k \in 1..Len(before) : after[k] # before[k]} = {i, j}

\* two_opt_single_route is in its while loop.
TwoOptLoops == pc = "two_opt" /\ opt.pc = "loop"

\* No pair of positions of the route has a reversal that saves more than the
\* threshold.
NoPairImproves(o) ==
    \A i \in 1..Len(o.best_route) - 3, j \in 2..Len(o.best_route) - 2 :
        i < j => ~(TwoOptGain(graph, o.best_route, i, j)
                       > o.improvement_threshold)

\* C24: two_opt_single_route terminates; it makes at most max_iterations
\* scans, a scan reverses at most one segment, and after a scan that found
\* no pair saving more than the threshold the next step is the return of
\* the route as it is.
C24_TwoOptTerminates ==
    /\ [](TwoOptLoops => <>(pc = "two_opt" /\ opt.pc = "done"))
    /\ [](pc = "two_opt" => opt.iteration <= opt.max_iterations
                                \/ opt.iteration = 0)
    /\ [][TwoOptLoops =>
            /\ opt'.iteration = opt.iteration + 1 =>
                   /\ opt.iteration < opt.max_iterations
                   /\ \/ opt'.best_route = opt.best_route
                      \/ \E i \in 1..Len(opt.best_route) - 3,
                            j \in 2..Len(opt.best_route) - 2 :
                            /\ i < j
                            /\ opt'.best_route
                                   = ReverseSegment(opt.best_route, i, j)
                   /\ NoPairImproves(opt) =>
                          /\ opt'.best_route = opt.best_route
                          /\ opt'.pc = "loop"
                          /\ ~opt'.improved
            /\ (opt.iteration > 0 /\ NoPairImproves(opt)
                   /\ opt.best_route = opt.route /\ ~opt.improved) =>
                   opt'.pc = "done"
            /\ ~opt.improved =>
                   (opt'.pc = "done" /\ opt'.best_route = opt.best_route)
       ]_vars

\* Two ways out of the loop: a call stopped by max_iterations = 2 after two
\* reversals, with a third one still to be had; and a call that made three
\* scans and left because the third found nothing.
C24_Witness ==
    /\ pc = "two_opt"
    /\ opt.pc = "done"
    /\ \/ /\ opt.max_iterations = 2
          /\ opt.iteration = 2
          /\ opt.improved
          /\ ~NoPairImproves(opt)
       \/ /\ opt.iteration = 3
          /\ ~opt.improved

\* simulated_annealing_optimize is in its while loop.
AnnealLoops == pc = "anneal" /\ sa.pc = "loop"

\* C25: with t_min > 0 and 0 < cooling_rate < 1 simulated_annealing_optimize
\* terminates; a trial is made only at a temperature above t_min and before
\* the iter_per_temp-th trial at that temperature, the temperature changes
\* only after iter_per_temp trials, to its product with cooling_rate, the
\* return comes only at a temperature of at most t_min, and a call with
\* t0 <= t_min returns its input.
C25_AnnealTerminates ==
    /\ [](AnnealLoops => <>AnnealDone)
    /\ [][AnnealLoops =>
            /\ sa'.trial = sa.trial + 1 =>
                   /\ sa.temperature > sa.t_min
                   /\ sa.trial < sa.iter_per_temp
                   /\ sa'.temperature = sa.temperature
            /\ (sa'.pc = "loop" /\ sa'.trial # sa.trial + 1) =>
                   /\ sa.temperature > sa.t_min
                   /\ sa.trial = sa.iter_per_temp
                   /\ sa'.trial = 0
                   /\ sa'.temperature
                          = FloatProduct(sa.temperature, sa.cooling_rate)
                   /\ sa'.best_routes = sa.best_routes
            /\ sa'.pc = "done" =>
                   /\ sa.temperature <= sa.t_min
                   /\ sa'.best_routes = sa.best_routes
            /\ sa.temperature <= sa.t_min =>
                   /\ sa'.pc = "done"
                   /\ sa'.neighbor_routes = sa.neighbor_routes
       ]_vars
    /\ []((AnnealRuns /\ sa.neighbor_routes = <<>>)
             => sa.best_routes = sa.routes)

\* How often n is among the interior elements of a route.
InteriorCount(route, n) ==
    Cardinality({k \in 2..Len(route) - 1 : route[k] = n})

\* best_route has the ends of route and, between them, the elements of
\* route's interior, each as often.
SameEndsSameStops(route, best_route) ==
    /\ Len(best_route) = Len(route)
    /\ best_route[1] = route[1]
    /\ best_route[Len(best_route)] = route[Len(route)]
    /\ \A n \in DOMAIN graph.nodes :
           InteriorCount(best_route, n) = InteriorCount(route, n)

\* C26: the route two_opt_single_route returns for a depot-framed route has
\* the input's first and last element and, between them, a rearrangement of
\* the input's interior; optimize_routes_2opt returns the truck ids it was
\* given, each with the stops it had.
C26_TwoOptKeepsEndsAndStops ==
    (pc = "frame" /\ fr.pc = "returned") =>
        /\ fr.fn = "two_opt_single_route" =>
               /\ SameEndsSameStops(fr.before[fr.arg], heap[fr.result])
               /\ heap[fr.result][1] = Depot
               /\ heap[fr.result][Len(heap[fr.result])] = Depot
        /\ fr.fn = "optimize_routes_2opt" =>
               LET routes == ValueOf(fr.before, fr.arg)
                   optimized_routes == ValueOf(heap, fr.result)
               IN  /\ Len(optimized_routes) = Len(routes)
                   /\ \A k \in 1..Len(routes) :
                          /\ optimized_routes[k][1] = routes[k][1]
                          /\ SameEndsSameStops(routes[k][2],
                                               optimized_routes[k][2])

\* optimize_routes_2opt has returned, for two trucks, a solution in which
\* the second truck's stops are in another order than before.
C26_Witness ==
    /\ pc = "frame"
    /\ fr.pc = "returned"
    /\ fr.fn = "optimize_routes_2opt"
    /\ Len(heap[fr.result]) = 2
    /\ ValueOf(heap, fr.result)[2][2] # ValueOf(fr.before, fr.arg)[2][2]

\* C27: a path astar returns begins with start and ends with goal, every
\* two consecutive locations of it are joined by an edge of the graph, the
\* second a neighbor of the first, and no location is in it twice.
C27_PathIsSimpleWalk ==
    (AstarDone /\ ast.result # None) =>
        LET path == ast.result
        IN  /\ path[1] = ast.start_id
            /\ path[Len(path)] = ast.goal_id
            /\ \A k \in 1..Len(path) - 1 :
                   /\ {path[k], path[k + 1]} \in graph.edges
                   /\ path[k + 1] \in DictKeys(get_neighbors(graph, path[k]))
            /\ \A i \in 1..Len(path), j \in 1..Len(path) :
                   path[i] = path[j] => i = j
            /\ \A k \in 1..Len(path) : path[k] \in DOMAIN graph.nodes

\* A path of five locations or more that goes round blocked cells and ends
\* in a corner that was added again and so has no neighbors of its own.
C27_Witness ==
    /\ AstarDone
    /\ ast.result # None
    /\ Len(ast.result) >= 5
    /\ ast.goal_id = Depot
    /\ get_neighbors(graph, Depot) = <<>>

====
